---- MODULE Spec2Model ----
(***************************************************************************)
(* Verification model of obsidian-cli: the vault scanner (ScanVault,       *)
(* processFile), the link normalizer and the rename transformer.           *)
(*                                                                         *)
(* Go strings are modelled as sequences of one-character strings, so that  *)
(* every conversion (lower-casing, suffix trimming, regular-expression     *)
(* matching, path cleaning) is computed the way the code computes it.      *)
(***************************************************************************)
EXTENDS Integers, Sequences, FiniteSets, TLC

\* ------------------------------------------------------------------------
\* Go "strings" package on character sequences
\* ------------------------------------------------------------------------

\* strings.ToLower on one ASCII character
ToLowerC(c) ==
  CASE c = "A" -> "a"
    [] c = "B" -> "b"
    [] c = "D" -> "d"
    [] c = "M" -> "m"
    [] c = "N" -> "n"
    [] OTHER -> c

\* strings.ToLower
ToLower(s) == [i \in 1..Len(s) |-> ToLowerC(s[i])]

\* strings.EqualFold (ASCII)
EqualFold(s, t) == ToLower(s) = ToLower(t)

\* strings.HasPrefix
HasPrefix(s, p) == Len(s) >= Len(p) /\ SubSeq(s, 1, Len(p)) = p

\* strings.HasSuffix
HasSuffix(s, p) == Len(s) >= Len(p) /\ SubSeq(s, Len(s) - Len(p) + 1, Len(s)) = p

\* strings.TrimSuffix
TrimSuffix(s, p) == IF HasSuffix(s, p) THEN SubSeq(s, 1, Len(s) - Len(p)) ELSE s

\* strings.Index, 1-based; 0 when sub does not occur
IndexOf(s, sub) ==
  LET hits == {i \in 1..(Len(s) - Len(sub) + 1) : SubSeq(s, i, i + Len(sub) - 1) = sub}
  IN IF hits = {} THEN 0 ELSE CHOOSE i \in hits : \A j \in hits : i <= j

\* strings.LastIndex, 1-based; 0 when sub does not occur
LastIndexOf(s, sub) ==
  LET hits == {i \in 1..(Len(s) - Len(sub) + 1) : SubSeq(s, i, i + Len(sub) - 1) = sub}
  IN IF hits = {} THEN 0 ELSE CHOOSE i \in hits : \A j \in hits : i >= j

\* strings.Contains
Contains(s, sub) == IndexOf(s, sub) # 0

\* strings.Cut: the text before the first sep, and whether sep was found
Cut(s, sep) ==
  LET i == IndexOf(s, sep)
  IN IF i = 0 THEN [before |-> s, after |-> <<>>, found |-> FALSE]
     ELSE [before |-> SubSeq(s, 1, i - 1),
           after |-> SubSeq(s, i + Len(sep), Len(s)),
           found |-> TRUE]

\* strings.TrimSpace for the blank character of the alphabet
RECURSIVE TrimSpace(_)
TrimSpace(s) ==
  IF s = <<>> THEN s
  ELSE IF Head(s) = " " THEN TrimSpace(Tail(s))
  ELSE IF s[Len(s)] = " " THEN TrimSpace(SubSeq(s, 1, Len(s) - 1))
  ELSE s

\* ------------------------------------------------------------------------
\* Link normalizer
\* ------------------------------------------------------------------------

\* A plausible slip: the heading anchor is not cut at all
normalizeLink_keepHeading(link) ==
  IF Cut(link, <<"^">>).found THEN Cut(link, <<"^">>).before ELSE link

\* normalizeLink: cut at the first "#"; only when there is none, at the first "^"
normalizeLink(link) ==
  IF Cut(link, <<"#">>).found THEN Cut(link, <<"#">>).before
  ELSE IF Cut(link, <<"^">>).found THEN Cut(link, <<"^">>).before
  ELSE link

\* ------------------------------------------------------------------------
\* Go "path/filepath" package (Unix separator) on character sequences
\* ------------------------------------------------------------------------

\* strings.Split(s, "/"): the components between separators, empty ones kept
RECURSIVE SplitSlash(_)
SplitSlash(s) ==
  LET i == IndexOf(s, <<"/">>)
  IN IF i = 0 THEN <<s>>
     ELSE <<SubSeq(s, 1, i - 1)>> \o SplitSlash(SubSeq(s, i + 1, Len(s)))

\* strings.Join(comps, "/")
RECURSIVE JoinSlash(_)
JoinSlash(comps) ==
  IF comps = <<>> THEN <<>>
  ELSE IF Len(comps) = 1 THEN comps[1]
  ELSE comps[1] \o <<"/">> \o JoinSlash(Tail(comps))

\* The element stack filepath.Clean keeps while it reads the components
RECURSIVE CleanStack(_, _, _)
CleanStack(comps, stack, rooted) ==
  IF comps = <<>> THEN stack
  ELSE LET c == Head(comps)
           rest == Tail(comps)
       IN IF c = <<>> \/ c = <<".">> THEN CleanStack(rest, stack, rooted)
          ELSE IF c = <<".", ".">> THEN
                 IF stack # <<>> /\ stack[Len(stack)] # <<".", ".">>
                   THEN CleanStack(rest, SubSeq(stack, 1, Len(stack) - 1), rooted)
                 ELSE IF rooted THEN CleanStack(rest, stack, rooted)
                 ELSE CleanStack(rest, Append(stack, c), rooted)
          ELSE CleanStack(rest, Append(stack, c), rooted)

\* filepath.Clean
Clean(path) ==
  LET rooted == path # <<>> /\ path[1] = "/"
      body == JoinSlash(CleanStack(SplitSlash(path), <<>>, rooted))
  IN IF rooted THEN <<"/">> \o body
     ELSE IF body = <<>> THEN <<".">> ELSE body

\* filepath.Join of two elements
Join(a, b) ==
  IF a = <<>> THEN (IF b = <<>> THEN <<>> ELSE Clean(b))
  ELSE IF b = <<>> THEN Clean(a)
  ELSE Clean(a \o <<"/">> \o b)

\* Trailing separators removed, as filepath.Base does first
RECURSIVE StripTrailingSlashes(_)
StripTrailingSlashes(s) ==
  IF s # <<>> /\ s[Len(s)] = "/" THEN StripTrailingSlashes(SubSeq(s, 1, Len(s) - 1))
  ELSE s

\* filepath.Base
Base(path) ==
  IF path = <<>> THEN <<".">>
  ELSE LET t == StripTrailingSlashes(path)
       IN IF t = <<>> THEN <<"/">>
          ELSE SubSeq(t, LastIndexOf(t, <<"/">>) + 1, Len(t))

\* filepath.Dir
Dir(path) == Clean(SubSeq(path, 1, LastIndexOf(path, <<"/">>)))

\* filepath.Ext: from the last "." of the last element
Ext(path) ==
  LET d == LastIndexOf(path, <<".">>)
  IN IF d > LastIndexOf(path, <<"/">>) THEN SubSeq(path, d, Len(path)) ELSE <<>>

\* Length of the common prefix of two component lists
RECURSIVE CommonPrefixLen(_, _)
CommonPrefixLen(a, b) ==
  IF a = <<>> \/ b = <<>> \/ Head(a) # Head(b) THEN 0
  ELSE 1 + CommonPrefixLen(Tail(a), Tail(b))

\* filepath.Rel for two absolute paths
Rel(base, targ) ==
  LET b == CleanStack(SplitSlash(base), <<>>, TRUE)
      t == CleanStack(SplitSlash(targ), <<>>, TRUE)
      k == CommonPrefixLen(b, t)
      ups == [i \in 1..(Len(b) - k) |-> <<".", ".">>]
      r == JoinSlash(ups \o SubSeq(t, k + 1, Len(t)))
  IN IF r = <<>> THEN <<".">> ELSE r

\* The process's working directory (os.Getwd), which filepath.Abs puts in
\* front of a relative path
WorkingDir == <<"/", "v">>

\* filepath.Abs: an absolute path cleaned, a relative one joined to the
\* working directory
Abs(path) ==
  IF path # <<>> /\ path[1] = "/" THEN Clean(path) ELSE Join(WorkingDir, path)

\* A plausible slip: plain string prefix, without the separator
isPathWithinVault_noSeparator(path, vaultPath) ==
  HasPrefix(Clean(Abs(path)), Clean(Abs(vaultPath)))

\* isPathWithinVault: the cleaned path is the root or lies below root + "/"
isPathWithinVault(path, vaultPath) ==
  LET absVault == Clean(Abs(vaultPath))
      absPath == Clean(Abs(path))
      vaultPrefix == absVault \o <<"/">>
  IN absPath = absVault \/ HasPrefix(absPath, vaultPrefix)

\* ------------------------------------------------------------------------
\* Regular expressions of the vault package, as matchers on character sequences
\* ------------------------------------------------------------------------

\* End (exclusive) of the longest run from position i of characters not in stops:
\* the greedy [^...]+ of the two expressions. Negated classes match "\n" too.
RunEnd(s, i, stops) ==
  CHOOSE j \in i..(Len(s) + 1) :
    /\ \A k \in i..(j - 1) : s[k] \notin stops
    /\ (j = Len(s) + 1 \/ s[j] \in stops)

\* Whether "]]" stands at position i
ClosesAt(s, i) == i + 1 <= Len(s) /\ s[i] = "]" /\ s[i + 1] = "]"

NoMatch == [ok |-> FALSE, start |-> 0, end |-> 0, tstart |-> 0, tend |-> 0]

\* A plausible slip: the optional "|alias" group is not accepted
MatchWikilinkAt_noAlias(s, i) ==
  IF ~(i + 1 <= Len(s) /\ s[i] = "[" /\ s[i + 1] = "[") THEN NoMatch
  ELSE LET t0 == i + 2
           t1 == RunEnd(s, t0, {"]", "|"})
       IN IF t1 > t0 /\ ClosesAt(s, t1)
            THEN [ok |-> TRUE, start |-> i, end |-> t1 + 2, tstart |-> t0, tend |-> t1]
          ELSE NoMatch

\* wikilinkRegex \[\[([^\]|]+)(?:\|[^\]]+)?\]\] anchored at position i.
\* start..end-1 is the whole match, tstart..tend-1 the capture (the target).
MatchWikilinkAt(s, i) ==
  IF ~(i + 1 <= Len(s) /\ s[i] = "[" /\ s[i + 1] = "[") THEN NoMatch
  ELSE LET t0 == i + 2
           t1 == RunEnd(s, t0, {"]", "|"})
           a0 == t1 + 1
           a1 == RunEnd(s, a0, {"]"})
       IN IF t1 = t0 THEN NoMatch
          ELSE IF ClosesAt(s, t1)
            THEN [ok |-> TRUE, start |-> i, end |-> t1 + 2, tstart |-> t0, tend |-> t1]
          ELSE IF t1 <= Len(s) /\ s[t1] = "|" /\ a1 > a0 /\ ClosesAt(s, a1)
            THEN [ok |-> TRUE, start |-> i, end |-> a1 + 2, tstart |-> t0, tend |-> t1]
          ELSE NoMatch

\* embedRegex !\[\[([^\]|]+)(?:\|[^\]]+)?\]\] anchored at position i
MatchEmbedAt(s, i) ==
  IF i <= Len(s) /\ s[i] = "!" /\ MatchWikilinkAt(s, i + 1).ok
    THEN [MatchWikilinkAt(s, i + 1) EXCEPT !.start = i]
  ELSE NoMatch

\* wikilinkRegex.FindAllStringSubmatchIndex: leftmost, non-overlapping matches
RECURSIVE FindAllWikilinks(_, _)
FindAllWikilinks(s, from) ==
  IF from > Len(s) THEN <<>>
  ELSE LET m == MatchWikilinkAt(s, from)
       IN IF m.ok THEN <<m>> \o FindAllWikilinks(s, m.end)
          ELSE FindAllWikilinks(s, from + 1)

\* embedRegex.FindAllStringSubmatchIndex
RECURSIVE FindAllEmbeds(_, _)
FindAllEmbeds(s, from) ==
  IF from > Len(s) THEN <<>>
  ELSE LET m == MatchEmbedAt(s, from)
       IN IF m.ok THEN <<m>> \o FindAllEmbeds(s, m.end)
          ELSE FindAllEmbeds(s, from + 1)

\* The capture group of a match
Capture(s, m) == SubSeq(s, m.tstart, m.tend - 1)

\* ------------------------------------------------------------------------
\* bufio.Scanner with ScanLines
\* ------------------------------------------------------------------------

\* The character "L" stands for a run of bytes longer than the scanner's token
\* limit (bufio.MaxScanTokenSize): Scan() stops at the line holding it and Err()
\* is bufio.ErrTooLong.
TooLong(line) == \E i \in 1..Len(line) : line[i] = "L"

\* dropCR of bufio.ScanLines
DropCR(line) ==
  IF line # <<>> /\ line[Len(line)] = "\r" THEN SubSeq(line, 1, Len(line) - 1) ELSE line

\* All lines of a content as ScanLines cuts them: at each "\n", a last line
\* without "\n" included, nothing after a final "\n"
RECURSIVE SplitLines(_)
SplitLines(content) ==
  IF content = <<>> THEN <<>>
  ELSE LET i == IndexOf(content, <<"\n">>)
       IN IF i = 0 THEN <<DropCR(content)>>
          ELSE <<DropCR(SubSeq(content, 1, i - 1))>>
               \o SplitLines(SubSeq(content, i + 1, Len(content)))

\* The lines Scan() delivers before it stops, and whether Err() is set
ScannedLines(content) ==
  LET all == SplitLines(content)
      bad == {i \in 1..Len(all) : TooLong(all[i])}
      stop == IF bad = {} THEN Len(all) + 1 ELSE CHOOSE i \in bad : \A j \in bad : i <= j
  IN [lines |-> SubSeq(all, 1, stop - 1), err |-> bad # {}]

\* ------------------------------------------------------------------------
\* Link classification (vault package)
\* ------------------------------------------------------------------------

\* The extensions of isAssetFile's table
AssetExts ==
  {<<".", "p", "n", "g">>, <<".", "j", "p", "g">>, <<".", "j", "p", "e", "g">>, <<".", "g", "i", "f">>, <<".", "s", "v", "g">>, <<".", "w", "e", "b", "p">>,
   <<".", "p", "d", "f">>, <<".", "m", "p", "3">>, <<".", "m", "p", "4">>, <<".", "w", "a", "v">>, <<".", "m", "o", "v">>, <<".", "z", "i", "p">>}

\* isAssetFile
isAssetFile(target) == ToLower(Ext(target)) \in AssetExts

\* isExternalLink
isExternalLink(target) ==
  Contains(target, <<":", "/", "/">>) \/ HasPrefix(target, <<"m", "a", "i", "l", "t", "o", ":">>)

\* isFolderLink
isFolderLink(target) == HasSuffix(target, <<"/">>)

\* ------------------------------------------------------------------------
\* The filesystem: a function from absolute paths to entries
\* ------------------------------------------------------------------------

FileE(content) == [kind |-> "file", content |-> content, target |-> <<>>]
DirE == [kind |-> "dir", content |-> <<>>, target |-> <<>>]
\* A symbolic link with the canonical path it resolves to (<<>>: a broken link)
LinkE(target) == [kind |-> "symlink", content |-> <<>>, target |-> target]

\* The directories above an absolute path (the root "/" left out)
Ancestors(p) == {SubSeq(p, 1, i - 1) : i \in {j \in 2..Len(p) : p[j] = "/"}}

\* filepath.EvalSymlinks: the path with its symbolic links resolved; <<>> when
\* a link on the way is broken
EvalSymlinks(F, p) ==
  LET links == {q \in (Ancestors(p) \cup {p}) \cap DOMAIN F : F[q].kind = "symlink"}
      first == CHOOSE q \in links : \A r \in links : Len(q) <= Len(r)
  IN IF links = {} THEN p
     ELSE IF F[first].target = <<>> THEN <<>>
     ELSE F[first].target \o SubSeq(p, Len(first) + 1, Len(p))

\* os.Stat succeeds: the path, links followed, names an entry
StatOK(F, p) == EvalSymlinks(F, p) # <<>> /\ EvalSymlinks(F, p) \in DOMAIN F

\* os.Open / os.ReadFile can read: the path, links followed, names a file
IsReadableFile(F, p) == StatOK(F, p) /\ F[EvalSymlinks(F, p)].kind = "file"

\* The bytes os.Open / os.ReadFile deliver
ReadContent(F, p) == F[EvalSymlinks(F, p)].content

\* d.IsDir() && strings.HasPrefix(d.Name(), "."): a hidden directory
IsHiddenDir(F, p) == F[p].kind = "dir" /\ HasPrefix(Base(p), <<".">>)

\* Byte value of a character, for the lexical order of directory entries
CharRank(c) ==
  CASE c = "\n" -> 10 [] c = " " -> 32 [] c = "!" -> 33 [] c = "#" -> 35
    [] c = "." -> 46 [] c = "/" -> 47 [] c = "2" -> 50 [] c = ":" -> 58
    [] c = "A" -> 65 [] c = "B" -> 66 [] c = "D" -> 68 [] c = "L" -> 76
    [] c = "M" -> 77 [] c = "N" -> 78
    [] c = "[" -> 91 [] c = "]" -> 93 [] c = "^" -> 94 [] c = "_" -> 95
    [] c = "a" -> 97 [] c = "b" -> 98 [] c = "c" -> 99 [] c = "d" -> 100
    [] c = "e" -> 101 [] c = "g" -> 103 [] c = "h" -> 104 [] c = "i" -> 105
    [] c = "l" -> 108 [] c = "m" -> 109 [] c = "n" -> 110 [] c = "p" -> 112
    [] c = "s" -> 115 [] c = "v" -> 118 [] c = "w" -> 119 [] c = "x" -> 120
    [] c = "|" -> 124
    [] OTHER -> 127

\* Byte-wise string order
RECURSIVE StrLess(_, _)
StrLess(a, b) ==
  IF b = <<>> THEN FALSE
  ELSE IF a = <<>> THEN TRUE
  ELSE IF CharRank(Head(a)) # CharRank(Head(b)) THEN CharRank(Head(a)) < CharRank(Head(b))
  ELSE StrLess(Tail(a), Tail(b))

\* Order of two component lists: a directory comes before what it holds, and the
\* entries of one directory come in the order of their names
RECURSIVE CompsLess(_, _)
CompsLess(a, b) ==
  IF b = <<>> THEN FALSE
  ELSE IF a = <<>> THEN TRUE
  ELSE IF Head(a) # Head(b) THEN StrLess(Head(a), Head(b))
  ELSE CompsLess(Tail(a), Tail(b))

\* The order in which filepath.WalkDir reaches two paths
WalkBefore(p, q) == CompsLess(SplitSlash(p), SplitSlash(q))

\* A set of paths as the sequence in walk order
RECURSIVE InWalkOrder(_)
InWalkOrder(S) ==
  IF S = {} THEN <<>>
  ELSE LET first == CHOOSE p \in S : \A r \in S \ {p} : WalkBefore(p, r)
       IN <<first>> \o InWalkOrder(S \ {first})

\* A plausible slip: the hidden-directory rule holds for the directories below
\* the root only, the root itself is walked whatever its name
WalkDir_rootExempt(F, root) ==
  InWalkOrder({p \in DOMAIN F :
    /\ p = root \/ HasPrefix(p, root \o <<"/">>)
    /\ \A a \in Ancestors(p) :
         (a = root \/ HasPrefix(a, root \o <<"/">>))
           => a \in DOMAIN F /\ F[a].kind = "dir" /\ (a = root \/ ~IsHiddenDir(F, a))})

\* The entries filepath.WalkDir hands to its callback from root: the root and
\* everything below it that is not inside a hidden directory or behind a
\* symbolic link (WalkDir does not follow links). A callback's SkipDir on a
\* hidden directory is what keeps its entries out.
WalkDir(F, root) ==
  InWalkOrder({p \in DOMAIN F :
    /\ p = root \/ HasPrefix(p, root \o <<"/">>)
    /\ \A a \in Ancestors(p) :
         (a = root \/ HasPrefix(a, root \o <<"/">>))
           => a \in DOMAIN F /\ F[a].kind = "dir" /\ ~IsHiddenDir(F, a)})

Min(a, b) == IF a < b THEN a ELSE b

\* ------------------------------------------------------------------------
\* ScanVault: the walk and the existence index
\* ------------------------------------------------------------------------

\* The callback of ScanVault's walk lets the entry through: not a hidden
\* directory, and not a symbolic link that is broken or leaves the vault
ScanKeeps(F, root, p) ==
  /\ ~IsHiddenDir(F, p)
  /\ F[p].kind = "symlink" =>
       /\ EvalSymlinks(F, p) # <<>>
       /\ isPathWithinVault(EvalSymlinks(F, p), root)

\* strings.HasSuffix(strings.ToLower(path), ".md")
IsMarkdownPath(p) == HasSuffix(ToLower(p), <<".", "m", "d">>)

\* A plausible slip: the walk without the symbolic-link check
ScanMdFiles_noLinkCheck(F, root) ==
  SelectSeq(WalkDir(F, root), LAMBDA p :
    ~IsHiddenDir(F, p) /\ F[p].kind # "dir" /\ IsMarkdownPath(p))

\* mdFiles as the walk collects them
ScanMdFiles(F, root) ==
  SelectSeq(WalkDir(F, root), LAMBDA p :
    ScanKeeps(F, root, p) /\ F[p].kind # "dir" /\ IsMarkdownPath(p))

\* folders as the walk collects them (the root included)
ScanFolders(F, root) ==
  SelectSeq(WalkDir(F, root), LAMBDA p : ScanKeeps(F, root, p) /\ F[p].kind = "dir")

\* result.TotalFiles after the walk
ScanTotalFiles(F, root) ==
  Len(SelectSeq(WalkDir(F, root), LAMBDA p : ScanKeeps(F, root, p) /\ F[p].kind # "dir"))

\* The FilesByFolder key of a markdown file: "root" or its top-level folder
TopFolder(root, p) ==
  LET folder == Dir(Rel(root, p))
  IN IF folder = <<".">> THEN <<"r", "o", "o", "t">> ELSE SplitSlash(folder)[1]

\* result.FilesByFolder after the walk
ScanFilesByFolder(F, root) ==
  LET md == ScanMdFiles(F, root)
      keys == {TopFolder(root, md[i]) : i \in 1..Len(md)}
  IN [k \in keys |-> Cardinality({i \in 1..Len(md) : TopFolder(root, md[i]) = k})]

\* A plausible slip: the index keys are not lower-cased
FileKeys_caseSensitive(root, f) ==
  {TrimSuffix(Rel(root, f), <<".", "m", "d">>), Rel(root, f), TrimSuffix(Base(f), <<".", "m", "d">>)}

\* The three existingFiles keys of one markdown file
FileKeys(root, f) ==
  {ToLower(TrimSuffix(Rel(root, f), <<".", "m", "d">>)),
   ToLower(Rel(root, f)),
   ToLower(TrimSuffix(Base(f), <<".", "m", "d">>))}

\* existingFiles
ExistingFiles(root, md) == UNION {FileKeys(root, md[i]) : i \in 1..Len(md)}

\* existingFolders: every folder but the root, with and without a trailing "/"
ExistingFolders(root, folders) ==
  UNION {IF Rel(root, folders[i]) = <<".">> THEN {}
         ELSE {ToLower(Rel(root, folders[i]) \o <<"/">>), ToLower(Rel(root, folders[i]))}
         : i \in 1..Len(folders)}

\* ------------------------------------------------------------------------
\* processFile: the updates of the shared result one file gives rise to
\* ------------------------------------------------------------------------

IncOp(key) == [op |-> "inc", key |-> key, file |-> <<>>, target |-> <<>>, line |-> 0]
DeadOp(rel, target, n) == [op |-> "dead", key |-> <<>>, file |-> rel, target |-> target, line |-> n]
FmOp(rel) == [op |-> "fm", key |-> <<>>, file |-> rel, target |-> <<>>, line |-> 0]

\* A plausible slip: the "+.md" fallback of the existence test is left out
TargetExists_noSuffix(ef, targetLower) == targetLower \in ef

\* existingFiles[targetLower] || existingFiles[targetLower+".md"]
TargetExists(ef, targetLower) ==
  targetLower \in ef \/ (targetLower \o <<".", "m", "d">>) \in ef

\* The body of the loop over allMatches for one match
MatchOps(rel, n, raw, ef, efo) ==
  LET target == normalizeLink(raw)
      targetLower == ToLower(target)
  IN IF target = <<>> THEN <<>>
     ELSE IF isExternalLink(target) THEN <<>>
     ELSE IF isAssetFile(target) THEN <<IncOp(targetLower)>>
     ELSE IF isFolderLink(target) THEN
            IF targetLower \in efo THEN <<IncOp(targetLower)>>
            ELSE <<IncOp(targetLower), DeadOp(rel, target, n)>>
     ELSE IF ~TargetExists(ef, targetLower)
            THEN <<IncOp(targetLower), DeadOp(rel, target, n)>>
     ELSE <<IncOp(targetLower)>>

\* What a correct scan takes for the matches of a line: the embeds are already
\* among the wikilink matches
AllMatches_once(line) == FindAllWikilinks(line, 1)

\* allMatches of a line: the wikilinkRegex matches, then the embedRegex matches
AllMatches(line) == FindAllWikilinks(line, 1) \o FindAllEmbeds(line, 1)

RECURSIVE LineOps(_, _, _, _, _, _)
LineOps(rel, n, line, ms, ef, efo) ==
  IF ms = <<>> THEN <<>>
  ELSE MatchOps(rel, n, Capture(line, Head(ms)), ef, efo)
       \o LineOps(rel, n, line, Tail(ms), ef, efo)

RECURSIVE LinesOps(_, _, _, _, _)
LinesOps(rel, n, lines, ef, efo) ==
  IF lines = <<>> THEN <<>>
  ELSE LineOps(rel, n, Head(lines), AllMatches(Head(lines)), ef, efo)
       \o LinesOps(rel, n + 1, Tail(lines), ef, efo)

\* A plausible slip: a "---" at the start of any line counts
HasFrontmatter_anyLine(lines) ==
  \E n \in 1..Len(lines) : HasPrefix(lines[n], <<"-", "-", "-">>)

\* hasFrontmatter after the loop: line 1 exists and starts with "---"
HasFrontmatter(lines) == lines # <<>> /\ HasPrefix(lines[1], <<"-", "-", "-">>)

\* processFile(path, ...) with the file opened: the updates in program order
ProcessFileOps(F, root, path, ef, efo) ==
  LET sc == ScannedLines(ReadContent(F, path))
      rel == Rel(root, path)
  IN LinesOps(rel, 1, sc.lines, ef, efo)
     \o (IF ~sc.err /\ ~HasFrontmatter(sc.lines) THEN <<FmOp(rel)>> ELSE <<>>)

\* ------------------------------------------------------------------------
\* State
\* ------------------------------------------------------------------------

VARIABLES
  fs,              \* the filesystem: absolute path -> entry
  root,            \* the --vault path, absolute
  touched,         \* history: [op, path] of every file access, links resolved
  nIn, nOut,       \* pure-function harnesses: the input, the successive results
  scanPc,          \* ScanVault's position
  mdFiles,         \* the walk's markdown files, in walk order
  existingFiles, existingFolders,
  fileChan,        \* the buffered channel's content
  chanCap,         \* bufferSize
  chanClosed,
  unsent,          \* the files the sender has still to send
  workers,         \* per goroutine: pc, the file in hand, its updates to come
  mu,              \* result.mu: 0 or the worker holding it
  result,          \* the ScanResult
  parsed,          \* history: [path, outcome] of every processFile call, in order of return
  numCPU,          \* runtime.NumCPU() of the machine
  pool,            \* the worker pool of ScanVault, its files counted and not named
  cli,             \* the command line: the command, the --vault flag, what the handler returned
  ev,              \* the surfacing-events file, its flock, the processes that write it
  faults,          \* I/O faults injected so far
  rn,              \* the rename command in progress
  fs0,             \* history: the filesystem when the command started
  fsOrig,          \* history: the filesystem before the first command
  cmds             \* history: the rename commands run, in order

commonVars == <<fs, root, touched>>
normVars == <<nIn, nOut>>
scanVars == <<scanPc, mdFiles, existingFiles, existingFolders, fileChan, chanCap,
              chanClosed, unsent, workers, mu, result, parsed, faults, numCPU, pool>>
renameVars == <<rn, fs0, fsOrig, cmds>>
vars == <<commonVars, normVars, scanVars, renameVars, cli, ev>>

\* ------------------------------------------------------------------------
\* Bounds and program constants
\* ------------------------------------------------------------------------

\* The cap on the worker count in ScanVault
MaxWorkers == 8
\* The values of runtime.NumCPU(): fewer processors than the pool's limit, and
\* more
CPUCounts == {2, MaxWorkers + 1}
\* The cap on the channel buffer in ScanVault
MaxChanBuffer == 1000
\* How many injected I/O faults one scan may meet
MaxIOFaults == 1
\* Longest input of the normalizer harness
MaxLen == 3

\* The goroutines that could be started: one more than the pool's limit
WorkerIds == 1..(MaxWorkers + 1)

\* ------------------------------------------------------------------------
\* Idle values: each specification leaves the other parts at rest
\* ------------------------------------------------------------------------

EmptyResult ==
  [TotalFiles |-> 0, MarkdownFiles |-> 0, Directories |-> 0, Orphans |-> <<>>,
   DeadLinks |-> <<>>, FrontmatterErrs |-> <<>>, FilesByFolder |-> <<>>,
   IncomingLinks |-> <<>>]

IdleWorker == [pc |-> "none", path |-> <<>>, ops |-> <<>>]

NormIdle == nIn = <<>> /\ nOut = <<>>

\* The worker pool before ScanVault has reached it
IdlePool ==
  [pc |-> "idle", files |-> 0, cpus |-> 0, cap |-> 0, unsent |-> 0, inChan |-> 0,
   closed |-> FALSE, ws |-> [w \in WorkerIds |-> "none"]]

\* No command given yet
IdleCli == [cmd |-> "", vault |-> <<>>, pc |-> "idle", err |-> ""]

\* No process at the events file
IdleEv == [file |-> <<>>, lock |-> 0, ps |-> <<>>]

ScanAtStart ==
  /\ pool = IdlePool
  /\ cli = IdleCli
  /\ ev = IdleEv
  /\ scanPc = "start"
  /\ mdFiles = <<>>
  /\ existingFiles = {}
  /\ existingFolders = {}
  /\ fileChan = <<>>
  /\ chanCap = 0
  /\ chanClosed = FALSE
  /\ unsent = <<>>
  /\ workers = [w \in WorkerIds |-> IdleWorker]
  /\ mu = 0
  /\ result = EmptyResult
  /\ parsed = <<>>
  /\ faults = 0

\* ScanVault not called, on a machine of two processors
ScanIdle == ScanAtStart /\ numCPU = 2

IdleRename ==
  [pc |-> "idle", old |-> <<>>, new |-> <<>>, dryRun |-> FALSE, build |-> "none",
   source |-> <<>>, dest |-> <<>>, changes |-> <<>>, pending |-> {},
   written |-> 0, err |-> "", errCount |-> -1, executed |-> FALSE, log |-> <<>>]

RenameIdle == rn = IdleRename /\ fs0 = fs /\ fsOrig = fs /\ cmds = <<>>

\* ------------------------------------------------------------------------
\* ScanVault as a state machine
\* ------------------------------------------------------------------------

\* result.IncomingLinks[k], 0 for a missing key
Count(m, k) == IF k \in DOMAIN m THEN m[k] ELSE 0

\* m[k]++
Bump(m, k) ==
  IF k \in DOMAIN m THEN [m EXCEPT ![k] = @ + 1]
  ELSE [x \in DOMAIN m \cup {k} |-> IF x = k THEN 1 ELSE m[x]]

\* A plausible slip: a file with an incoming link on the basename key alone is
\* still reported
IsOrphan_ignoreBasenameKey(res, rt, f) ==
  /\ Count(res.IncomingLinks, ToLower(TrimSuffix(Rel(rt, f), <<".", "m", "d">>))) = 0
  /\ Count(res.IncomingLinks, ToLower(Rel(rt, f))) = 0
  /\ ~HasPrefix(Base(f), <<"_">>)
  /\ ~HasPrefix(Base(f), <<"i", "n", "d", "e", "x">>)

\* The test of the orphan pass for one markdown file
IsOrphan(res, rt, f) ==
  /\ Count(res.IncomingLinks, ToLower(TrimSuffix(Rel(rt, f), <<".", "m", "d">>))) = 0
  /\ Count(res.IncomingLinks, ToLower(Rel(rt, f))) = 0
  /\ Count(res.IncomingLinks, ToLower(TrimSuffix(Base(f), <<".", "m", "d">>))) = 0
  /\ ~HasPrefix(Base(f), <<"_">>)
  /\ ~HasPrefix(Base(f), <<"i", "n", "d", "e", "x">>)

\* result.Orphans: the relative paths of the orphans, in mdFiles order
OrphanList(res, rt, md) ==
  LET keep == SelectSeq(md, LAMBDA f : IsOrphan(res, rt, f))
  IN [i \in 1..Len(keep) |-> Rel(rt, keep[i])]

\* A plausible slip: a dead link is recorded once per target, for the file
\* that comes first
ApplyOp_oncePerTarget(res, o) ==
  IF o.op = "inc" THEN [res EXCEPT !.IncomingLinks = Bump(@, o.key)]
  ELSE IF o.op = "dead"
    THEN IF \E i \in 1..Len(res.DeadLinks) : res.DeadLinks[i].Target = o.target
           THEN res
         ELSE [res EXCEPT !.DeadLinks =
                 Append(@, [SourceFile |-> o.file, Target |-> o.target, Line |-> o.line])]
  ELSE [res EXCEPT !.FrontmatterErrs = Append(@, o.file)]

\* One update of the shared result, made while result.mu is held
ApplyOp(res, o) ==
  IF o.op = "inc" THEN [res EXCEPT !.IncomingLinks = Bump(@, o.key)]
  ELSE IF o.op = "dead"
    THEN [res EXCEPT !.DeadLinks =
            Append(@, [SourceFile |-> o.file, Target |-> o.target, Line |-> o.line])]
  ELSE [res EXCEPT !.FrontmatterErrs = Append(@, o.file)]

\* A plausible slip: the pool is as wide as the machine, without the limit
NumWorkers_noCap(files, cpus) == Min(files, cpus)

\* numWorkers
NumWorkers(files, cpus) == Min(files, Min(cpus, MaxWorkers))

\* How processFile ends on a file it opened: by the return after a scanner
\* error, or at its end
ReadOutcome(F, path) == IF ScannedLines(ReadContent(F, path)).err THEN "readerr" ELSE "read"

\* ScanVault up to the start of the workers: root validation, the walk, the
\* two indexes, the channel and the goroutines
ScanStart ==
  /\ scanPc = "start"
  /\ IF ~(StatOK(fs, root) /\ fs[EvalSymlinks(fs, root)].kind = "dir")
       THEN /\ scanPc' = "failed"
            /\ UNCHANGED <<mdFiles, existingFiles, existingFolders, chanCap, unsent,
                           workers, result>>
     ELSE LET md == ScanMdFiles(fs, root)
              folders == ScanFolders(fs, root)
              numWorkers == NumWorkers(Len(md), numCPU)
          IN /\ scanPc' = "send"
             /\ mdFiles' = md
             /\ existingFiles' = ExistingFiles(root, md)
             /\ existingFolders' = ExistingFolders(root, folders)
             /\ chanCap' = Min(Len(md), MaxChanBuffer)
             /\ unsent' = md
             /\ workers' = [w \in WorkerIds |->
                             IF w <= numWorkers THEN [IdleWorker EXCEPT !.pc = "recv"]
                             ELSE IdleWorker]
             /\ result' = [result EXCEPT
                             !.TotalFiles = ScanTotalFiles(fs, root),
                             !.MarkdownFiles = Len(md),
                             !.Directories = Len(folders),
                             !.FilesByFolder = ScanFilesByFolder(fs, root)]
  /\ UNCHANGED <<fileChan, chanClosed, mu, parsed, faults>>
  /\ UNCHANGED <<commonVars, normVars, renameVars, numCPU, pool, cli, ev>>

\* fileChan <- f
ScanSend ==
  /\ scanPc = "send"
  /\ unsent # <<>>
  /\ Len(fileChan) < chanCap
  /\ fileChan' = Append(fileChan, Head(unsent))
  /\ unsent' = Tail(unsent)
  /\ UNCHANGED <<scanPc, mdFiles, existingFiles, existingFolders, chanCap, chanClosed,
                 workers, mu, result, parsed, faults>>
  /\ UNCHANGED <<commonVars, normVars, renameVars, numCPU, pool, cli, ev>>

\* close(fileChan), then wg.Wait()
ScanClose ==
  /\ scanPc = "send"
  /\ unsent = <<>>
  /\ chanClosed' = TRUE
  /\ scanPc' = "wait"
  /\ UNCHANGED <<mdFiles, existingFiles, existingFolders, fileChan, chanCap, unsent,
                 workers, mu, result, parsed, faults>>
  /\ UNCHANGED <<commonVars, normVars, renameVars, numCPU, pool, cli, ev>>

\* A worker takes a path from the channel and runs processFile up to its first
\* update of the shared result (or to its end when it makes none)
WorkerRecv(w) ==
  /\ workers[w].pc = "recv"
  /\ fileChan # <<>>
  /\ LET path == Head(fileChan)
     IN /\ fileChan' = Tail(fileChan)
        /\ IF ~isPathWithinVault(path, root)
             THEN /\ parsed' = Append(parsed, [path |-> path, outcome |-> "outside"])
                  /\ UNCHANGED <<workers, touched, faults>>
           ELSE \E opens \in BOOLEAN :
                  /\ opens => IsReadableFile(fs, path)
                  /\ ~opens /\ IsReadableFile(fs, path) => faults < MaxIOFaults
                  /\ faults' = IF ~opens /\ IsReadableFile(fs, path) THEN faults + 1 ELSE faults
                  /\ IF ~opens
                       THEN /\ parsed' = Append(parsed, [path |-> path, outcome |-> "unopened"])
                            /\ UNCHANGED <<workers, touched>>
                     ELSE LET ops == ProcessFileOps(fs, root, path, existingFiles, existingFolders)
                          IN /\ touched' = touched \cup
                                  {[op |-> "open", path |-> EvalSymlinks(fs, path)]}
                             /\ IF ops = <<>>
                                  THEN /\ parsed' = Append(parsed, [path |-> path, outcome |-> ReadOutcome(fs, path)])
                                       /\ UNCHANGED workers
                                ELSE /\ workers' = [workers EXCEPT
                                          ![w] = [pc |-> "lock", path |-> path, ops |-> ops]]
                                     /\ UNCHANGED parsed
  /\ UNCHANGED <<scanPc, mdFiles, existingFiles, existingFolders, chanCap, chanClosed,
                 unsent, mu, result>>
  /\ UNCHANGED <<fs, root, normVars, renameVars, numCPU, pool, cli, ev>>

\* result.mu.Lock()
WorkerLock(w) ==
  /\ workers[w].pc = "lock"
  /\ mu = 0
  /\ mu' = w
  /\ workers' = [workers EXCEPT ![w].pc = "crit"]
  /\ UNCHANGED <<scanPc, mdFiles, existingFiles, existingFolders, fileChan, chanCap,
                 chanClosed, unsent, result, parsed, faults>>
  /\ UNCHANGED <<commonVars, normVars, renameVars, numCPU, pool, cli, ev>>

\* The update, result.mu.Unlock(), and processFile on to its next update
WorkerUpdate(w) ==
  /\ workers[w].pc = "crit"
  /\ mu = w
  /\ result' = ApplyOp(result, Head(workers[w].ops))
  /\ mu' = 0
  /\ IF Tail(workers[w].ops) = <<>>
       THEN /\ workers' = [workers EXCEPT ![w] = [IdleWorker EXCEPT !.pc = "recv"]]
            /\ parsed' = Append(parsed, [path |-> workers[w].path,
                                       outcome |-> ReadOutcome(fs, workers[w].path)])
     ELSE /\ workers' = [workers EXCEPT ![w].pc = "lock", ![w].ops = Tail(@)]
          /\ UNCHANGED parsed
  /\ UNCHANGED <<scanPc, mdFiles, existingFiles, existingFolders, fileChan, chanCap,
                 chanClosed, unsent, faults>>
  /\ UNCHANGED <<commonVars, normVars, renameVars, numCPU, pool, cli, ev>>

\* The range loop over the closed, drained channel ends: wg.Done()
WorkerExit(w) ==
  /\ workers[w].pc = "recv"
  /\ fileChan = <<>>
  /\ chanClosed
  /\ workers' = [workers EXCEPT ![w].pc = "exit"]
  /\ UNCHANGED <<scanPc, mdFiles, existingFiles, existingFolders, fileChan, chanCap,
                 chanClosed, unsent, mu, result, parsed, faults>>
  /\ UNCHANGED <<commonVars, normVars, renameVars, numCPU, pool, cli, ev>>

\* A plausible slip: the orphan pass does not wait for the workers
WaitReturns_noJoin(ws) == TRUE

\* wg.Wait() can return: every goroutine that was started has called wg.Done()
WaitReturns(ws) == \A w \in WorkerIds : ws[w].pc \in {"none", "exit"}

\* wg.Wait() returns, then the orphan pass, then ScanVault returns
ScanFinish ==
  /\ scanPc = "wait"
  /\ WaitReturns(workers)
  /\ result' = [result EXCEPT !.Orphans = OrphanList(result, root, mdFiles)]
  /\ scanPc' = "done"
  /\ UNCHANGED <<mdFiles, existingFiles, existingFolders, fileChan, chanCap, chanClosed,
                 unsent, workers, mu, parsed, faults>>
  /\ UNCHANGED <<commonVars, normVars, renameVars, numCPU, pool, cli, ev>>

ScanNext ==
  \/ ScanStart
  \/ ScanSend
  \/ ScanClose
  \/ \E w \in WorkerIds : WorkerRecv(w)
  \/ \E w \in WorkerIds : WorkerLock(w)
  \/ \E w \in WorkerIds : WorkerUpdate(w)
  \/ \E w \in WorkerIds : WorkerExit(w)
  \/ ScanFinish

\* ------------------------------------------------------------------------
\* The vaults scanned
\* ------------------------------------------------------------------------

VaultRoot == <<"/", "v">>

\* What every vault of the model holds: the root, a folder, and a note that is
\* a symbolic link to a file outside the vault
BaseTree ==
  [p \in {<<"/", "v">>, <<"/", "v", "/", "d">>, <<"/", "w">>, <<"/", "w", "/", "s", ".", "m", "d">>, <<"/", "v", "/", "l", ".", "m", "d">>} |->
     IF p = <<"/", "w", "/", "s", ".", "m", "d">> THEN FileE(<<"[", "[", "a", "]", "]">>)
     ELSE IF p = <<"/", "v", "/", "l", ".", "m", "d">> THEN LinkE(<<"/", "w", "/", "s", ".", "m", "d">>)
     ELSE DirE]

\* The note F that links point to: in the root or a folder, with either
\* letter case of the name and of the extension
ScanNotes == {<<"/", "v", "/", "a", ".", "m", "d">>, <<"/", "v", "/", "A", ".", "M", "D">>, <<"/", "v", "/", "d", "/", "a", ".", "m", "d">>, <<"/", "v", "/", "d", "/", "A", ".", "M", "D">>}

\* Targets written in the linking note G
ScanLinkTargets ==
  {<<"a">>, <<"A">>, <<"a", ".", "m", "d">>, <<"d", "/", "a">>, <<"D", "/", "A">>, <<"d", "/", "a", ".", "m", "d">>, <<"x">>, <<"a", "#", "h">>, <<"#", "h">>,
   <<"d", "/">>, <<"D", "/">>, <<"x", "/">>, <<"x", ".", "p", "n", "g">>, <<"h", ":", "/", "/", "x">>}

\* The three spellings of a link: bracket, aliased, embed
LinkForms(t) ==
  {<<"[", "[">> \o t \o <<"]", "]">>, <<"[", "[">> \o t \o <<"|", "l", "]", "]">>, <<"!", "[", "[">> \o t \o <<"]", "]">>}

\* Contents of G: with or without frontmatter, one link; two links on a line
\* or on two lines; a link followed by a line too long for the scanner; an
\* empty file; "---" on the second line only, at the start of a longer first
\* line, and cut short
ScanContents ==
  {pre \o body : pre \in {<<>>, <<"-", "-", "-", "\n">>},
                 body \in UNION {LinkForms(t) : t \in ScanLinkTargets}}
  \cup {<<"[", "[", "x", "]", "]", " ", "!", "[", "[", "x", "]", "]">>, <<"[", "[", "a", "]", "]", "\n", "[", "[", "x", "]", "]">>,
        <<"[", "[", "x", "]", "]", "\n", "L">>, <<>>, <<"x", "\n", "-", "-", "-">>, <<"-", "-", "-", "x">>, <<"-", "-">>}

ScanLinker == <<"/", "v", "/", "g", ".", "m", "d">>

\* Contents of G in the vault of three notes: several updates of the shared
\* result each
ScanBusyContents == {<<"[", "[", "x", "]", "]", " ", "!", "[", "[", "x", "]", "]">>, <<"[", "[", "a", "]", "]", "\n", "[", "[", "x", "]", "]">>, <<"[", "[", "x", "]", "]", "\n", "L">>}

\* A third note, without frontmatter
ScanThird == <<"/", "v", "/", "b", ".", "m", "d">>

\* Notes that fill the vault beyond the pool's limit, all with frontmatter and
\* no link
ScanCrowd ==
  {<<"/", "v", "/", "b", ".", "m", "d">>, <<"/", "v", "/", "c", ".", "m", "d">>, <<"/", "v", "/", "e", ".", "m", "d">>, <<"/", "v", "/", "h", ".", "m", "d">>, <<"/", "v", "/", "i", ".", "m", "d">>,
   <<"/", "v", "/", "m", ".", "m", "d">>, <<"/", "v", "/", "n", ".", "m", "d">>, <<"/", "v", "/", "p", ".", "m", "d">>, <<"/", "v", "/", "s", ".", "m", "d">>}

\* The vaults of the model: the note F alone; F and the linking note G; F, G
\* and a third note; F in a crowd of notes
ScanVaults ==
  {[p \in DOMAIN BaseTree \cup {f} |->
      IF p = f THEN FileE(<<"-", "-", "-">>) ELSE BaseTree[p]] : f \in ScanNotes}
  \cup
  {[p \in DOMAIN BaseTree \cup {f, ScanLinker} |->
      IF p = f THEN FileE(<<"-", "-", "-">>)
      ELSE IF p = ScanLinker THEN FileE(c)
      ELSE BaseTree[p]] : f \in ScanNotes, c \in ScanContents}
  \cup
  {[p \in DOMAIN BaseTree \cup {f, ScanLinker, ScanThird} |->
      IF p = f THEN FileE(<<"-", "-", "-">>)
      ELSE IF p = ScanLinker THEN FileE(c)
      ELSE IF p = ScanThird THEN FileE(<<"x">>)
      ELSE BaseTree[p]] : f \in ScanNotes, c \in ScanBusyContents}
  \cup
  {[p \in DOMAIN BaseTree \cup {f} \cup ScanCrowd |->
      IF p \in {f} \cup ScanCrowd THEN FileE(<<"-", "-", "-">>) ELSE BaseTree[p]] : f \in ScanNotes}

ScanInit ==
  /\ root = VaultRoot
  /\ fs \in ScanVaults
  /\ touched = {}
  /\ ScanAtStart
  /\ numCPU \in CPUCounts
  /\ NormIdle
  /\ RenameIdle

SpecScan == ScanInit /\ [][ScanNext]_vars

\* ------------------------------------------------------------------------
\* Properties of the scan
\* ------------------------------------------------------------------------

\* A path without its extension, whatever the letter case of the extension
StripExt(p) == SubSeq(p, 1, Len(p) - Len(Ext(p)))

\* The key forms of a note, lower-cased: basename without extension, relative
\* path, relative path without extension
NoteKeys(rt, f) ==
  {ToLower(StripExt(Base(f))), ToLower(Rel(rt, f)), ToLower(StripExt(Rel(rt, f)))}

\* The same key forms as written on disk
NoteKeysExact(rt, f) == {StripExt(Base(f)), Rel(rt, f), StripExt(Rel(rt, f))}

\* processFile read the file to its end
ReadToEnd(g) == \E i \in 1..Len(parsed) : parsed[i] = [path |-> g, outcome |-> "read"]

\* The link occurrences of one line, each once: an embed and the bracket link
\* inside it are one occurrence, told by where the target starts
Occurrences(line) ==
  LET ms == FindAllWikilinks(line, 1) \o FindAllEmbeds(line, 1)
  IN {[tstart |-> ms[i].tstart, target |-> normalizeLink(Capture(line, ms[i]))] :
        i \in 1..Len(ms)}

\* The normalized, non-empty, non-external targets linked from a file
LinkedTargets(g) ==
  LET lines == ScannedLines(ReadContent(fs, g)).lines
  IN {t \in {o.target : o \in UNION {Occurrences(lines[n]) : n \in 1..Len(lines)}} :
        t # <<>> /\ ~isExternalLink(t)}

\* An occurrence that is a link to a note (not empty, external, an asset or a folder)
IsNoteTarget(t) ==
  t # <<>> /\ ~isExternalLink(t) /\ ~isAssetFile(t) /\ ~isFolderLink(t)

MdFileSet == {mdFiles[i] : i \in 1..Len(mdFiles)}
OrphanSet == {result.Orphans[i] : i \in 1..Len(result.Orphans)}
DeadLinkSet == {result.DeadLinks[i] : i \in 1..Len(result.DeadLinks)}

\* C2: after ScanVault returns, a note F that another note G links to (by F's
\* basename, relative path or extension-stripped relative path, in any letter
\* case) is not in Orphans, whatever the letter case of F's name and extension.
C2_LinkedNoteNotOrphan ==
  scanPc = "done" =>
    \A f \in MdFileSet, g \in MdFileSet :
      (g # f /\ ReadToEnd(g)
         /\ \E t \in LinkedTargets(g) : ToLower(t) \in NoteKeys(root, f))
        => Rel(root, f) \notin OrphanSet

\* C3: every link occurrence (bracket, aliased or embed) whose target names a
\* note and matches no file adds exactly one DeadLink for its file and line:
\* a line has as many such DeadLinks as it has such occurrences.
C3_OneDeadLinkPerOccurrence ==
  scanPc = "done" =>
    \A g \in MdFileSet :
      ReadToEnd(g) =>
        LET lines == ScannedLines(ReadContent(fs, g)).lines
        IN \A n \in 1..Len(lines) :
             Cardinality({i \in 1..Len(result.DeadLinks) :
                            /\ result.DeadLinks[i].SourceFile = Rel(root, g)
                            /\ result.DeadLinks[i].Line = n
                            /\ IsNoteTarget(result.DeadLinks[i].Target)})
               = Cardinality({o \in Occurrences(lines[n]) :
                                /\ IsNoteTarget(o.target)
                                /\ ~TargetExists(existingFiles, ToLower(o.target))})

\* C10: a link whose target differs from a key form of an existing note only by
\* letter case is valid: no DeadLink carries such a target.
C10_CaseInsensitiveResolution ==
  \A dl \in DeadLinkSet, f \in MdFileSet : ToLower(dl.Target) \notin NoteKeys(root, f)

\* C10's case: the scan has returned, having read a note with a link to an
\* existing note written in another letter case than the note's name
C10_Witness ==
  /\ scanPc = "done"
  /\ \E f \in MdFileSet, g \in MdFileSet :
       /\ ReadToEnd(g)
       /\ \E t \in LinkedTargets(g) :
            ToLower(t) \in NoteKeys(root, f) /\ t \notin NoteKeysExact(root, f)

\* ------------------------------------------------------------------------
\* The link normalizer applied to bounded inputs
\* ------------------------------------------------------------------------

\* Characters of the normalizer's inputs: a letter, a separator, both markers
NormAlphabet == {"a", "/", "#", "^"}

NormInputs == UNION {[1..n -> NormAlphabet] : n \in 0..MaxLen}

NormInit ==
  /\ nIn \in NormInputs
  /\ nOut = <<>>
  /\ root = VaultRoot
  /\ fs = BaseTree
  /\ touched = {}
  /\ ScanIdle
  /\ RenameIdle

\* normalizeLink applied to the input, then to its own result
NormalizeStep ==
  /\ Len(nOut) < 2
  /\ nOut' = Append(nOut, normalizeLink(IF nOut = <<>> THEN nIn ELSE nOut[Len(nOut)]))
  /\ UNCHANGED <<nIn, commonVars, scanVars, renameVars, cli, ev>>

NormNext == NormalizeStep

SpecNorm == NormInit /\ [][NormNext]_vars

\* C5: normalizeLink is idempotent: applied to its own result it changes nothing,
\* for every input over an alphabet with "#" and "^".
C5_NormalizeIdempotent == Len(nOut) = 2 => nOut[2] = nOut[1]

\* ------------------------------------------------------------------------
\* rename: Resolve (findNoteFile) and the destination
\* ------------------------------------------------------------------------

\* collectMarkdownFiles: every non-directory entry of the walk whose lower-cased
\* path ends in ".md"; hidden directories are skipped, links are not examined
collectMarkdownFiles(F, rt) ==
  SelectSeq(WalkDir(F, rt), LAMBDA p : F[p].kind # "dir" /\ IsMarkdownPath(p))

\* strings.TrimSuffix(relPath, ".md") of a walked file
RelName(rt, path) == TrimSuffix(Rel(rt, path), <<".", "m", "d">>)

\* strings.TrimSuffix(filepath.Base(path), ".md") of a walked file
BaseName(path) == TrimSuffix(Base(path), <<".", "m", "d">>)

\* The walk callback of findNoteFile in rename.go, folded over the walked files:
\* the first match is kept and only an exact path match replaces it
RECURSIVE FindNoteWalk(_, _, _, _)
FindNoteWalk(files, rt, noteName, found) ==
  IF files = <<>> THEN found
  ELSE LET path == Head(files)
           exact == ToLower(RelName(rt, path)) = ToLower(noteName)
           hit == exact \/ ToLower(BaseName(path)) = ToLower(Base(noteName))
       IN FindNoteWalk(Tail(files), rt, noteName,
                       IF hit /\ (found = <<>> \/ exact) THEN path ELSE found)

\* findNoteFile as rename.go defines it
findNoteFile(F, rt, noteName) ==
  LET found == FindNoteWalk(collectMarkdownFiles(F, rt), rt, noteName, <<>>)
  IN IF found = <<>> THEN [path |-> <<>>, err |-> "notfound"]
     ELSE [path |-> found, err |-> ""]

\* The symbolic-link verification of the helpers' findNoteFile on the chosen path
VerifyNoteLink(F, rt, path) ==
  IF F[path].kind # "symlink" THEN [path |-> path, err |-> ""]
  ELSE IF EvalSymlinks(F, path) = <<>> THEN [path |-> <<>>, err |-> "unresolved"]
  ELSE IF ~isPathWithinVault(EvalSymlinks(F, path), rt) THEN [path |-> <<>>, err |-> "symlink"]
  ELSE [path |-> path, err |-> ""]

\* findNoteFile as the helpers define it: the walk stops at the first exact path
\* match (SkipAll); otherwise the basename matches seen are counted
findNoteFile_helpers(F, rt, noteName) ==
  LET files == collectMarkdownFiles(F, rt)
      exacts == {i \in 1..Len(files) : ToLower(RelName(rt, files[i])) = ToLower(noteName)}
      baseMatches == SelectSeq(files, LAMBDA p :
                       ToLower(BaseName(p)) = ToLower(Base(noteName)))
  IN IF exacts # {}
       THEN VerifyNoteLink(F, rt, files[CHOOSE i \in exacts : \A j \in exacts : i <= j])
     ELSE IF Len(baseMatches) = 0 THEN [path |-> <<>>, err |-> "notfound"]
     ELSE IF Len(baseMatches) > 1 THEN [path |-> <<>>, err |-> "ambiguous"]
     ELSE VerifyNoteLink(F, rt, Join(rt, Rel(rt, baseMatches[1])))

\* The findNoteFile of the build in use
Resolve(build, F, rt, noteName) ==
  IF build = "helpers" THEN findNoteFile_helpers(F, rt, noteName)
  ELSE findNoteFile(F, rt, noteName)

\* A plausible slip: the new name is always taken relative to the vault root
computeDestPath_alwaysRoot(rt, sourceFile, newName) == Join(rt, newName \o <<".", "m", "d">>)

\* computeDestPath
computeDestPath(rt, sourceFile, newName) ==
  IF Contains(newName, <<"/">>) THEN Join(rt, newName \o <<".", "m", "d">>)
  ELSE Join(Dir(sourceFile), newName \o <<".", "m", "d">>)

\* ------------------------------------------------------------------------
\* rename: Analyze (backlinks) and the link rewrite
\* ------------------------------------------------------------------------

\* The match test of scanFileForRenameBacklinks on one captured target
IsBacklinkTarget(capture, targetBaseName, targetLower) ==
  LET linkTarget == ToLower(normalizeLink(capture))
  IN ToLower(Base(linkTarget)) = targetBaseName \/ linkTarget = targetLower

\* Whether a line holds a link the analysis attributes to the target
LineHasBacklink(line, targetBaseName, targetLower) ==
  LET ms == FindAllWikilinks(line, 1)
  IN \E i \in 1..Len(ms) : IsBacklinkTarget(Capture(line, ms[i]), targetBaseName, targetLower)

\* scanFileForRenameBacklinks: one BacklinkResult per line with a matching link
scanFileForRenameBacklinks(F, filePath, relPath, targetBaseName, targetLower) ==
  IF ~IsReadableFile(F, filePath) THEN <<>>
  ELSE LET lines == ScannedLines(ReadContent(F, filePath)).lines
           hits == SelectSeq([i \in 1..Len(lines) |-> i], LAMBDA i :
                     LineHasBacklink(lines[i], targetBaseName, targetLower))
       IN [k \in 1..Len(hits) |->
             [SourceFile |-> relPath, Line |-> hits[k], Context |-> lines[hits[k]]]]

\* The skip test of findBacklinksForRename: the file is taken for the target
IsTargetFile(rt, filePath, targetNote) ==
  \/ ToLower(BaseName(filePath)) = ToLower(Base(targetNote))
  \/ ToLower(RelName(rt, filePath)) = ToLower(targetNote)

\* findBacklinksForRename
RECURSIVE findBacklinksForRename(_, _, _, _)
findBacklinksForRename(F, rt, files, targetNote) ==
  IF files = <<>> THEN <<>>
  ELSE (IF IsTargetFile(rt, Head(files), targetNote) THEN <<>>
        ELSE scanFileForRenameBacklinks(F, Head(files), Rel(rt, Head(files)),
                                        ToLower(Base(targetNote)), ToLower(targetNote)))
       \o findBacklinksForRename(F, rt, Tail(files), targetNote)

\* The suffix computeNewLinkContent carries over: from the first "#", or with
\* no "#" from the first "^"
LinkSuffix(linkTarget) ==
  IF IndexOf(linkTarget, <<"#">>) # 0
    THEN SubSeq(linkTarget, IndexOf(linkTarget, <<"#">>), Len(linkTarget))
  ELSE IF IndexOf(linkTarget, <<"^">>) # 0
    THEN SubSeq(linkTarget, IndexOf(linkTarget, <<"^">>), Len(linkTarget))
  ELSE <<>>

\* The match test of computeNewLinkContent on one captured target
MatchesOldName(linkTarget, oldName) ==
  \/ EqualFold(Base(normalizeLink(linkTarget)), Base(oldName))
  \/ EqualFold(normalizeLink(linkTarget), oldName)

\* A plausible slip: a path-qualified link keeps only the new basename
NewLinkText_baseOnly(linkTarget, newName) == Base(newName) \o LinkSuffix(linkTarget)

\* The text computeNewLinkContent puts in place of a matching target
NewLinkText(linkTarget, newName) ==
  (IF Contains(linkTarget, <<"/">>) THEN newName ELSE Base(newName)) \o LinkSuffix(linkTarget)

\* The loop of computeNewLinkContent: matches k..1 of the text, last first
RECURSIVE ReplaceMatches(_, _, _, _, _, _)
ReplaceMatches(text, acc, ms, k, oldName, newName) ==
  IF k = 0 THEN acc
  ELSE LET linkTarget == Capture(text, ms[k])
           next == IF MatchesOldName(linkTarget, oldName)
                     THEN SubSeq(acc, 1, ms[k].tstart - 1)
                          \o NewLinkText(linkTarget, newName)
                          \o SubSeq(acc, ms[k].tend, Len(acc))
                   ELSE acc
       IN ReplaceMatches(text, next, ms, k - 1, oldName, newName)

\* A plausible slip: only the first link of the line is looked at
computeNewLinkContent_firstOnly(text, oldName, newName) ==
  LET ms == FindAllWikilinks(text, 1)
  IN ReplaceMatches(text, text, ms, Min(Len(ms), 1), oldName, newName)

\* computeNewLinkContent
computeNewLinkContent(text, oldName, newName) ==
  LET ms == FindAllWikilinks(text, 1)
  IN ReplaceMatches(text, text, ms, Len(ms), oldName, newName)

\* The RenameChange records runRename builds from the BacklinkResults
ChangesOf(backlinks, oldName, newName) ==
  [k \in 1..Len(backlinks) |->
     [File |-> backlinks[k].SourceFile, Line |-> backlinks[k].Line,
      OldContent |-> backlinks[k].Context,
      NewContent |-> computeNewLinkContent(backlinks[k].Context, oldName, newName)]]

\* result.Changes of runRename
RenameChanges(F, rt, oldName, newName) ==
  ChangesOf(findBacklinksForRename(F, rt, collectMarkdownFiles(F, rt), oldName),
            oldName, newName)

\* The files findBacklinksForRename opens, links resolved
AnalysisOpens(F, rt, oldName) ==
  LET files == collectMarkdownFiles(F, rt)
  IN {EvalSymlinks(F, files[i]) : i \in {j \in 1..Len(files) :
        ~IsTargetFile(rt, files[j], oldName) /\ IsReadableFile(F, files[j])}}

\* A plausible slip: a pre-operation error does not stop the command
PhaseAfterAnalysis_ignoreError(err, dryRun) == IF dryRun THEN "done" ELSE "exec"

\* A plausible slip: the dry-run flag is not consulted
PhaseAfterAnalysis_ignoreDryRun(err, dryRun) == IF err # "" THEN "failed" ELSE "exec"

\* Where runRename goes after its checks and the preview
PhaseAfterAnalysis(err, dryRun) ==
  IF err # "" THEN "failed" ELSE IF dryRun THEN "done" ELSE "exec"

\* The command's state when runRename returns or calls executeRename
RenameState(build, oldName, newName, dryRun, found, destFile, err, changes) ==
  [pc |-> PhaseAfterAnalysis(err, dryRun), old |-> oldName, new |-> newName,
   dryRun |-> dryRun, build |-> build, source |-> found.path, dest |-> destFile,
   changes |-> changes,
   pending |-> {changes[k].File : k \in 1..Len(changes)},
   written |-> 0, err |-> err, errCount |-> -1,
   executed |-> (err = "" /\ ~dryRun), log |-> <<>>]

\* runRename's checks of the destination: inside the vault, not yet there
DestError(F, rt, found, destFile) ==
  IF found.err # "" THEN found.err
  ELSE IF ~isPathWithinVault(destFile, rt) THEN "escape"
  ELSE IF StatOK(F, destFile) THEN "exists"
  ELSE ""

\* runRename from the destination checks on
runRename_checked(build, F, rt, oldName, newName, dryRun, found, destFile, err) ==
  RenameState(build, oldName, newName, dryRun, found, destFile, err,
              IF err = "" THEN RenameChanges(F, rt, oldName, newName) ELSE <<>>)

\* runRename from the resolved source on
runRename_resolved(build, F, rt, oldName, newName, dryRun, found) ==
  IF found.err # ""
    THEN runRename_checked(build, F, rt, oldName, newName, dryRun, found, <<>>, found.err)
  ELSE runRename_checked(build, F, rt, oldName, newName, dryRun, found,
                         computeDestPath(rt, found.path, newName),
                         DestError(F, rt, found, computeDestPath(rt, found.path, newName)))

\* runRename from the trimmed names on: the empty-name check, then Resolve
runRename_named(build, F, rt, oldName, newName, dryRun) ==
  runRename_resolved(build, F, rt, oldName, newName, dryRun,
    IF TrimSpace(oldName) = <<>> \/ TrimSpace(newName) = <<>>
      THEN [path |-> <<>>, err |-> "empty"]
    ELSE Resolve(build, F, rt, oldName))

\* runRename up to the call of executeRename: names trimmed, source resolved,
\* destination computed and checked, backlinks analysed
Analyze(build, F, rt, oldArg, newArg, dryRun) ==
  runRename_named(build, F, rt, TrimSuffix(oldArg, <<".", "m", "d">>), TrimSuffix(newArg, <<".", "m", "d">>),
                  dryRun)

\* ------------------------------------------------------------------------
\* rename: Execute
\* ------------------------------------------------------------------------

\* The directories os.MkdirAll has to create for dir, links resolved
MissingDirs(F, dir) ==
  LET real == EvalSymlinks(F, dir)
  IN {a \in Ancestors(real) \cup {real} : a \notin DOMAIN F}

\* os.MkdirAll can succeed: the path resolves and nothing on it is a non-directory
MkdirAllOK(F, dir) ==
  LET real == EvalSymlinks(F, dir)
  IN /\ real # <<>>
     /\ \A a \in (Ancestors(real) \cup {real}) \cap DOMAIN F : F[a].kind = "dir"

\* The filesystem after a successful os.MkdirAll
MkdirAll(F, dir) ==
  [p \in DOMAIN F \cup MissingDirs(F, dir) |-> IF p \in DOMAIN F THEN F[p] ELSE DirE]

\* Where os.Rename puts the entry: the parent resolved, the last element kept
RenameTarget(F, dest) == Join(EvalSymlinks(F, Dir(dest)), Base(dest))

\* os.Rename can succeed: the source is there, the destination's parent is a
\* directory and the destination is not one
RenameOK(F, source, dest) ==
  /\ source \in DOMAIN F
  /\ EvalSymlinks(F, Dir(dest)) \in DOMAIN F
  /\ F[EvalSymlinks(F, Dir(dest))].kind = "dir"
  /\ RenameTarget(F, dest) \in DOMAIN F => F[RenameTarget(F, dest)].kind # "dir"

\* The filesystem after a successful os.Rename of a non-directory entry
MoveEntry(F, source, dest) ==
  [p \in (DOMAIN F \ {source}) \cup {RenameTarget(F, dest)} |->
     IF p = RenameTarget(F, dest) THEN F[source] ELSE F[p]]

\* A plausible slip: the file whose write failed is counted as modified
WriteErrorCount_countsFailed(linksUpdated) == linksUpdated + 1

\* The count the write-failure message of executeRename reports
WriteErrorCount(linksUpdated) == linksUpdated

\* One round of executeRename's loop over changesByFile (map order: any pending
\* file may come next): read, stat, rewrite every matching link of the whole
\* content, write back. Each of the three calls may fail; a failed write can
\* leave the file as it was or truncated.
ExecFile ==
  /\ rn.pc = "exec"
  /\ \E file \in rn.pending, oc \in {"ok", "read", "stat", "write"} :
       LET fullPath == Join(root, file)
           real == EvalSymlinks(fs, fullPath)
       IN /\ oc # "read" => IsReadableFile(fs, fullPath)
          /\ CASE oc = "read" ->
                    /\ rn' = [rn EXCEPT !.pc = "failed", !.err = "read",
                                        !.log = Append(@, [ev |-> "readfail", file |-> file])]
                    /\ UNCHANGED <<fs, touched>>
               [] oc = "stat" ->
                    /\ rn' = [rn EXCEPT !.pc = "failed", !.err = "stat",
                                        !.log = Append(@, [ev |-> "statfail", file |-> file])]
                    /\ touched' = touched \cup {[op |-> "read", path |-> real]}
                    /\ UNCHANGED fs
               [] oc = "write" ->
                    /\ rn' = [rn EXCEPT !.pc = "failed", !.err = "write",
                                        !.errCount = WriteErrorCount(rn.written),
                                        !.log = Append(@, [ev |-> "writefail", file |-> file])]
                    /\ touched' = touched \cup {[op |-> "read", path |-> real],
                                                [op |-> "write", path |-> real]}
                    /\ \E left \in {fs[real].content, <<>>} :
                         fs' = [fs EXCEPT ![real].content = left]
               [] OTHER ->
                    /\ rn' = [rn EXCEPT !.pending = @ \ {file}, !.written = @ + 1,
                                        !.log = Append(@, [ev |-> "write", file |-> file])]
                    /\ touched' = touched \cup {[op |-> "read", path |-> real],
                                                [op |-> "write", path |-> real]}
                    /\ fs' = [fs EXCEPT ![real].content =
                                computeNewLinkContent(fs[real].content, rn.old, rn.new)]
  /\ UNCHANGED <<root, fs0, fsOrig, cmds, normVars, scanVars, cli, ev>>

\* The end of executeRename, once the loop is through: the destination
\* directory is checked and created, the source moved
ExecMove ==
  /\ rn.pc = "exec"
  /\ rn.pending = {}
  /\ LET destDir == Dir(rn.dest)
         made == MkdirAll(fs, destDir)
         mkdirs == {[op |-> "mkdir", path |-> d] : d \in MissingDirs(fs, destDir)}
     IN IF ~isPathWithinVault(destDir, root)
          THEN /\ rn' = [rn EXCEPT !.pc = "failed", !.err = "destdir"]
               /\ UNCHANGED <<fs, touched>>
        ELSE \E oc \in {"ok", "mkdir", "rename"} :
               /\ oc # "mkdir" => MkdirAllOK(fs, destDir)
               /\ oc = "ok" => RenameOK(made, rn.source, rn.dest)
               /\ CASE oc = "mkdir" ->
                         /\ rn' = [rn EXCEPT !.pc = "failed", !.err = "mkdir",
                                             !.log = Append(@, [ev |-> "mkdirfail", file |-> <<>>])]
                         /\ UNCHANGED <<fs, touched>>
                    [] oc = "rename" ->
                         /\ rn' = [rn EXCEPT !.pc = "failed", !.err = "rename",
                                             !.log = @ \o <<[ev |-> "mkdir", file |-> <<>>],
                                                            [ev |-> "movefail", file |-> <<>>]>>]
                         /\ fs' = made
                         /\ touched' = touched \cup mkdirs
                    [] OTHER ->
                         /\ rn' = [rn EXCEPT !.pc = "done",
                                             !.log = @ \o <<[ev |-> "mkdir", file |-> <<>>],
                                                            [ev |-> "move", file |-> <<>>]>>]
                         /\ fs' = MoveEntry(made, rn.source, rn.dest)
                         /\ touched' = touched \cup mkdirs \cup
                              {[op |-> "move", path |-> rn.source],
                               [op |-> "move", path |-> RenameTarget(made, rn.dest)]}
  /\ UNCHANGED <<root, fs0, fsOrig, cmds, normVars, scanVars, cli, ev>>

\* ------------------------------------------------------------------------
\* rename as a state machine
\* ------------------------------------------------------------------------

\* How many rename commands one behaviour runs
MaxCmds == 2

\* The tree every vault of the rename model holds: the root /v with folders d
\* and e, a directory /w outside it with a note linking to A, and inside the
\* root a note l.md and a folder c that are symbolic links to the outside
RenameTree ==
  [p \in {<<"/", "v">>, <<"/", "v", "/", "d">>, <<"/", "v", "/", "e">>, <<"/", "w">>, <<"/", "w", "/", "s", ".", "m", "d">>, <<"/", "v", "/", "l", ".", "m", "d">>, <<"/", "v", "/", "c">>} |->
     IF p = <<"/", "w", "/", "s", ".", "m", "d">> THEN FileE(<<"[", "[", "A", "]", "]">>)
     ELSE IF p = <<"/", "v", "/", "l", ".", "m", "d">> THEN LinkE(<<"/", "w", "/", "s", ".", "m", "d">>)
     ELSE IF p = <<"/", "v", "/", "c">> THEN LinkE(<<"/", "w">>)
     ELSE DirE]

\* The notes beside the linking note: A in the root or in a folder, A twice
\* under different folders, A with a note B elsewhere that links to it
RenameNoteSets ==
  {{<<"/", "v", "/", "A", ".", "m", "d">>}, {<<"/", "v", "/", "d", "/", "A", ".", "m", "d">>}, {<<"/", "v", "/", "d", "/", "A", ".", "m", "d">>, <<"/", "v", "/", "e", "/", "A", ".", "m", "d">>}, {<<"/", "v", "/", "A", ".", "m", "d">>, <<"/", "v", "/", "d", "/", "B", ".", "m", "d">>}}

\* Contents of the linking note g.md
RenameContents ==
  {<<"[", "[", "A", "]", "]">>, <<"[", "[", "a", "]", "]">>, <<"[", "[", "d", "/", "A", "]", "]">>, <<"!", "[", "[", "A", "#", "h", "|", "x", "]", "]">>, <<"[", "[", "A", "]", "]", " ", "[", "[", "B", "]", "]">>, <<"[", "[", "x", "]", "]">>,
   <<"[", "[", "A", "]", "]", " ", "[", "[", "B", "|", "x", "\n", "y", "]", "]">>}

RenameLinker == <<"/", "v", "/", "g", ".", "m", "d">>

\* The command line's first and second argument
OldArgs == {<<"A", ".", "m", "d">>, <<"a">>, <<"d", "/", "A">>, <<"l">>, <<"x">>, <<>>}
NewArgs == {<<"B">>, <<"n", "/", "B">>, <<"d", "/", "B">>, <<".", ".", "/", "B">>, <<"c", "/", "B">>, <<"g">>}

\* The two findNoteFile definitions the source holds
Builds == {"rename", "helpers"}

RenameInit ==
  /\ root = VaultRoot
  /\ \E notes \in RenameNoteSets, c \in RenameContents :
       fs = [p \in DOMAIN RenameTree \cup notes \cup {RenameLinker} |->
               IF p = RenameLinker THEN FileE(c)
               ELSE IF p = <<"/", "v", "/", "d", "/", "B", ".", "m", "d">> THEN FileE(<<"[", "[", "A", "]", "]">>)
               ELSE IF p \in notes THEN FileE(<<"x">>)
               ELSE RenameTree[p]]
  /\ touched = {}
  /\ \E b \in Builds : rn = [IdleRename EXCEPT !.build = b]
  /\ fs0 = fs
  /\ fsOrig = fs
  /\ cmds = <<>>
  /\ ScanIdle
  /\ NormIdle

\* The step that takes the command from its start to the state a: the dry-run
\* return, a pre-operation error, or the call of executeRename
StartRename(a) ==
  /\ rn' = a
  /\ touched' = touched \cup
       (IF a.err = "" THEN {[op |-> "open", path |-> p] : p \in AnalysisOpens(fs, root, a.old)}
        ELSE {})
  /\ cmds' = Append(cmds, [old |-> a.old, new |-> a.new, dryRun |-> a.dryRun])
  /\ fs0' = fs
  /\ UNCHANGED <<fs, root, fsOrig, normVars, scanVars, cli, ev>>

\* runRename, the first command
RunRename ==
  /\ rn.pc = "idle"
  /\ \E oldArg \in OldArgs, newArg \in NewArgs, dryRun \in BOOLEAN :
       StartRename(Analyze(rn.build, fs, root, oldArg, newArg, dryRun))

\* runRename after a completed rename, with the two names exchanged
RunRenameBack ==
  /\ rn.pc = "done"
  /\ rn.executed
  /\ Len(cmds) < MaxCmds
  /\ StartRename(Analyze(rn.build, fs, root, rn.new, rn.old, FALSE))

RenameNext == RunRename \/ RunRenameBack \/ ExecFile \/ ExecMove

SpecRename == RenameInit /\ [][RenameNext]_vars

\* ------------------------------------------------------------------------
\* Properties of rename
\* ------------------------------------------------------------------------

\* C1: no operation of the core opens, reads, writes, creates or moves to a
\* path whose resolved form lies outside the vault root
C1_NoAccessOutsideVault == \A t \in touched : isPathWithinVault(t.path, root)

\* The markdown files a walk of the vault reaches, as a set
MdFilesOf(F) ==
  {p \in DOMAIN F :
     /\ HasPrefix(p, root \o <<"/">>)
     /\ F[p].kind # "dir"
     /\ IsMarkdownPath(p)
     /\ \A a \in Ancestors(p) :
          HasPrefix(a, root) => (a \in DOMAIN F /\ F[a].kind = "dir" /\ ~IsHiddenDir(F, a))}

\* The files whose extension-stripped relative path is the identifier
ExactMatches(files, name) == {p \in files : ToLower(RelName(root, p)) = ToLower(name)}

\* The files that match the identifier by basename only
BasenameMatches(files, name) ==
  {p \in files : ToLower(BaseName(p)) = ToLower(Base(name))} \ ExactMatches(files, name)

\* The contract of Resolve for given sets of exact and basename matches
ResolveContract(exact, byBase) ==
  /\ exact # {} =>
       rn.err \notin {"notfound", "ambiguous"} /\ (rn.source # <<>> => rn.source \in exact)
  /\ (exact = {} /\ byBase = {}) => rn.err = "notfound"
  /\ (exact = {} /\ Cardinality(byBase) >= 2) => rn.err = "ambiguous"

\* C8: Resolve returns an exact path match with priority; with none, zero
\* basename matches is a not-found error and two or more an ambiguous error,
\* never one of the candidates
C8_ResolveContract ==
  (rn.pc # "idle" /\ rn.err # "empty") =>
    ResolveContract(ExactMatches(MdFilesOf(fs0), rn.old), BasenameMatches(MdFilesOf(fs0), rn.old))

\* The errors runRename reports before executeRename is called
PreOpErrors == {"empty", "notfound", "ambiguous", "unresolved", "symlink", "escape", "exists"}

\* C7: when rename ends with a pre-operation error the filesystem is exactly as
\* before the call: nothing written, no directory created, nothing moved
C7_PreOpErrorLeavesFilesystem ==
  rn.err \in PreOpErrors => (fs = fs0 /\ rn.log = <<>>)

\* A command stopped because its destination already exists
C7_Witness == rn.pc = "failed" /\ rn.err = "exists" /\ ~rn.dryRun

\* The lines of a file as the analysis reads them
LinesOf(F, p) == IF IsReadableFile(F, p) THEN ScannedLines(ReadContent(F, p)).lines ELSE <<>>

\* A change names a line of a file that holds a link to the old name, with the
\* line's text and its rewrite
ChangeSound(c, lines) ==
  /\ c.Line \in 1..Len(lines)
  /\ c.OldContent = lines[c.Line]
  /\ LineHasBacklink(c.OldContent, ToLower(Base(rn.old)), ToLower(rn.old))
  /\ c.NewContent = computeNewLinkContent(c.OldContent, rn.old, rn.new)

ChangesSound ==
  \A k \in 1..Len(rn.changes) :
    ChangeSound(rn.changes[k], LinesOf(fs0, Join(root, rn.changes[k].File)))

\* Every such line of a file has its change
FileChangesComplete(p, lines) ==
  \A i \in 1..Len(lines) :
    LineHasBacklink(lines[i], ToLower(Base(rn.old)), ToLower(rn.old)) =>
      \E k \in 1..Len(rn.changes) :
        rn.changes[k].File = Rel(root, p) /\ rn.changes[k].Line = i

ChangesComplete ==
  \A p \in MdFilesOf(fs0) :
    ~IsTargetFile(root, p, rn.old) => FileChangesComplete(p, LinesOf(fs0, p))

\* C9: a dry run never reaches Execute; when it has returned every file is
\* unchanged, Executed is false and the computed change list is in the result
C9_DryRunChangesNothing ==
  (rn.dryRun /\ rn.pc # "idle") =>
    /\ rn.pc \in {"done", "failed"}
    /\ fs = fs0
    /\ rn.log = <<>>
    /\ ~rn.executed
    /\ (rn.pc = "done" /\ rn.err = "") => (ChangesSound /\ ChangesComplete)

\* A dry run that returned with changes to report
C9_Witness == rn.dryRun /\ rn.pc = "done" /\ Len(rn.changes) >= 2

\* The files executeRename has to rewrite
AffectedFiles == {rn.changes[k].File : k \in 1..Len(rn.changes)}

\* The steps that belong to the move: directory creation and os.Rename
MoveSteps == {"mkdir", "mkdirfail", "move", "movefail"}

\* The files rewritten so far
WrittenCount == Cardinality({i \in 1..Len(rn.log) : rn.log[i].ev = "write"})

\* Directory creation and the move come only after every affected file was
\* written successfully
MoveAfterAllWrites ==
  \A i \in 1..Len(rn.log) :
    rn.log[i].ev \in MoveSteps =>
      \A f \in AffectedFiles : \E j \in 1..(i - 1) : rn.log[j] = [ev |-> "write", file |-> f]

\* A step on an affected file failed
FileStepFailed == rn.err \in {"read", "stat", "write"}

\* After such a failure nothing more happens: the failure is the last step, the
\* move was not attempted, no directory was created and the source is in place
AbortedAtOnce ==
  FileStepFailed =>
    /\ rn.pc = "failed"
    /\ rn.log # <<>>
    /\ rn.log[Len(rn.log)].ev \in {"readfail", "statfail", "writefail"}
    /\ \A i \in 1..Len(rn.log) : rn.log[i].ev \notin MoveSteps
    /\ \A i \in 1..(Len(rn.log) - 1) : rn.log[i].ev = "write"
    /\ DOMAIN fs = DOMAIN fs0
    /\ fs[rn.source] = fs0[rn.source]

\* C6 as stated: the move only after all writes; on a failed step an immediate
\* abort, and the error reports the number of files already rewritten
C6_AbortReportsCount ==
  /\ MoveAfterAllWrites
  /\ AbortedAtOnce
  /\ FileStepFailed => rn.errCount = WrittenCount

\* C6 amended: the move only after all writes; on a failed step an immediate
\* abort; a failed write reports the number of files already rewritten, a
\* failed read or stat reports no count
C6_AbortReportsCountOnWriteFailure ==
  /\ MoveAfterAllWrites
  /\ AbortedAtOnce
  /\ rn.err = "write" => rn.errCount = WrittenCount
  /\ rn.err \in {"read", "stat"} => rn.errCount = -1

\* A write failed after another file had been rewritten
C6_Witness == rn.pc = "failed" /\ rn.err = "write" /\ WrittenCount = 1

\* The two names of the first command
NameA == cmds[1].old
NameB == cmds[1].new

\* Both commands of the round trip ran to their end
RoundTripDone == Len(cmds) = 2 /\ rn.pc = "done" /\ rn.executed

\* All lines of a file, read through the vault
AllLines(F, p) == IF IsReadableFile(F, p) THEN SplitLines(ReadContent(F, p)) ELSE <<>>

\* The line holds a link to the note, by the test of the analysis
LinksTo(line, name) == LineHasBacklink(line, ToLower(Base(name)), ToLower(name))

\* Line i of the file is now what it was before the first command
LineRestored(p, i) ==
  i <= Len(AllLines(fs, p)) /\ AllLines(fs, p)[i] = AllLines(fsOrig, p)[i]

\* C4: after rename A to B and rename B to A, every line that held a link to A
\* is byte-identical to its original, in every file of the vault
C4_RoundTripRestoresLines ==
  RoundTripDone =>
    \A p \in MdFilesOf(fsOrig) :
      \A i \in 1..Len(AllLines(fsOrig, p)) :
        LinksTo(AllLines(fsOrig, p)[i], NameA) => LineRestored(p, i)

\* A link target written the way the two rewrites reproduce: without "/" and
\* before its anchor exactly A's basename, or with "/" and before its anchor
\* exactly A, B having a "/" too
PlainTarget(capture) ==
  IF Contains(capture, <<"/">>)
    THEN normalizeLink(capture) = NameA /\ Contains(NameB, <<"/">>)
  ELSE normalizeLink(capture) = Base(NameA)

\* On the line every link to A is plain and no link is one to B
PlainLine(line) ==
  \A m \in {FindAllWikilinks(line, 1)[k] : k \in 1..Len(FindAllWikilinks(line, 1))} :
    /\ MatchesOldName(Capture(line, m), NameA) => PlainTarget(Capture(line, m))
    /\ ~MatchesOldName(Capture(line, m), NameB)

\* No link of the content runs over a line break: the matches of the whole
\* content are the matches of its lines
LineLocal(content) ==
  \A m \in {FindAllWikilinks(content, 1)[k] : k \in 1..Len(FindAllWikilinks(content, 1))} :
    \A x \in m.start..(m.end - 1) : content[x] # "\n"

\* No markdown file of the vault is taken for B
NoNoteNamedB == \A p \in MdFilesOf(fsOrig) : ~IsTargetFile(root, p, NameB)

\* C4 amended: the round trip restores every line whose links to A are all
\* plain and which holds no link to B, in files without links over a line
\* break, when no markdown file has B's name
C4_RoundTripRestoresPlainLines ==
  (RoundTripDone /\ NoNoteNamedB) =>
    \A p \in MdFilesOf(fsOrig) :
      LineLocal(ReadContent(fsOrig, p)) =>
        \A i \in 1..Len(AllLines(fsOrig, p)) :
          (LinksTo(AllLines(fsOrig, p)[i], NameA) /\ PlainLine(AllLines(fsOrig, p)[i]))
            => LineRestored(p, i)

\* A finished round trip over a path-qualified plain link that was rewritten
C4_Witness ==
  /\ RoundTripDone
  /\ NoNoteNamedB
  /\ NameA = <<"d", "/", "A">>
  /\ Contains(NameB, <<"/">>)
  /\ IsReadableFile(fsOrig, RenameLinker)
  /\ ReadContent(fsOrig, RenameLinker) = <<"[", "[", "d", "/", "A", "]", "]">>
  /\ ReadContent(fs, RenameLinker) = <<"[", "[", "d", "/", "A", "]", "]">>

\* ------------------------------------------------------------------------
\* The orphan pass, the folder links and the worker pool
\* ------------------------------------------------------------------------

\* How many times a relative path is listed in Orphans
OrphanCount(rel) == Cardinality({i \in 1..Len(result.Orphans) : result.Orphans[i] = rel})

\* No link counted for any key form of the note, the extension taken off in
\* whatever letter case it is written
Unlinked(f) == \A k \in NoteKeys(root, f) : Count(result.IncomingLinks, k) = 0

\* The basename excludes the note from the orphan report
ExemptName(f) == HasPrefix(Base(f), <<"_">>) \/ HasPrefix(Base(f), <<"i", "n", "d", "e", "x">>)

\* C11: after ScanVault returns, a markdown file is in Orphans if and only if
\* IncomingLinks is zero for its three lower-cased keys (basename without
\* extension, relative path, relative path without extension, for any letter
\* case of the extension) and its basename starts with neither "_" nor
\* "index"; each such file is listed exactly once.
C11_OrphanIff ==
  scanPc = "done" =>
    \A f \in MdFileSet :
      OrphanCount(Rel(root, f)) = (IF Unlinked(f) /\ ~ExemptName(f) THEN 1 ELSE 0)

\* ------------------------------------------------------------------------
\* computeNewLinkContent applied to bounded lines
\* ------------------------------------------------------------------------

\* The longest line of the harness, in pieces
MaxPieces == 3

\* What a line is made of: plain text, links that match the old name (bare,
\* in another letter case with an alias, path-qualified with a heading, an
\* embed with a block reference, bare with a heading that holds a "/"), and
\* links that do not (one aliased with the old name)
RewritePieces ==
  {<<"t", " ">>, <<"[", "[", "A", "]", "]">>, <<"[", "[", "a", "|", "x", "]", "]">>, <<"[", "[", "d", "/", "A", "#", "h", "]", "]">>, <<"!", "[", "[", "A", "^", "b", "]", "]">>, <<"[", "[", "B", "]", "]">>, <<"[", "[", "C", "|", "A", "]", "]">>,
   <<"[", "[", "A", "#", "h", "/", "x", "]", "]">>}

RECURSIVE Flatten(_)
Flatten(ps) == IF ps = <<>> THEN <<>> ELSE Head(ps) \o Flatten(Tail(ps))

RewriteLines == {Flatten(ps) : ps \in UNION {[1..n -> RewritePieces] : n \in 0..MaxPieces}}

RewriteOldNames == {<<"A">>, <<"d", "/", "A">>}
RewriteNewNames == {<<"B">>, <<"n", "/", "B", "B">>}

RewriteInit ==
  /\ \E l \in RewriteLines, o \in RewriteOldNames, n \in RewriteNewNames :
       nIn = [line |-> l, oldName |-> o, newName |-> n]
  /\ nOut = <<>>
  /\ root = VaultRoot
  /\ fs = BaseTree
  /\ touched = {}
  /\ ScanIdle
  /\ RenameIdle

\* One call of computeNewLinkContent
RewriteStep ==
  /\ nOut = <<>>
  /\ nOut' = <<computeNewLinkContent(nIn.line, nIn.oldName, nIn.newName)>>
  /\ UNCHANGED <<nIn, commonVars, scanVars, renameVars, cli, ev>>

RewriteNext == RewriteStep

SpecRewrite == RewriteInit /\ [][RewriteNext]_vars

\* The line put together again from left to right: the text up to each target
\* as it was (brackets, "!", the alias of the link before and everything
\* between links), each target as it was unless it matches the old name, and
\* the text after the last target as it was
RECURSIVE FrameOf(_, _, _, _, _, _)
FrameOf(line, ms, k, pos, oldName, newName) ==
  IF k > Len(ms) THEN SubSeq(line, pos, Len(line))
  ELSE SubSeq(line, pos, ms[k].tstart - 1)
       \o (IF MatchesOldName(Capture(line, ms[k]), oldName)
             THEN NewLinkText(Capture(line, ms[k]), newName)
           ELSE Capture(line, ms[k]))
       \o FrameOf(line, ms, k + 1, ms[k].tend, oldName, newName)

\* The links of a line that match the old name
MatchingLinks(line, oldName) ==
  LET ms == FindAllWikilinks(line, 1)
  IN {k \in 1..Len(ms) : MatchesOldName(Capture(line, ms[k]), oldName)}

\* C12: the line computeNewLinkContent returns differs from the original only
\* inside the target capture of the links that match the old name: the text
\* outside links, the links that do not match, the aliases and the brackets
\* are unchanged, and every matching link is rewritten, whatever their number.
C12_RewriteFrame ==
  nOut # <<>> =>
    nOut[1] = FrameOf(nIn.line, FindAllWikilinks(nIn.line, 1), 1, 1, nIn.oldName, nIn.newName)

\* C12's case: a line with three matching links and a new name of another
\* length has been rewritten
C12_Witness ==
  /\ nOut # <<>>
  /\ Cardinality(MatchingLinks(nIn.line, nIn.oldName)) = 3
  /\ Len(nOut[1]) # Len(nIn.line)

\* ------------------------------------------------------------------------
\* Folder links
\* ------------------------------------------------------------------------

\* The non-hidden directories of the vault below the root, as relative paths
VaultFolders ==
  {Rel(root, p) : p \in {q \in DOMAIN fs :
     /\ HasPrefix(q, root \o <<"/">>)
     /\ fs[q].kind = "dir"
     /\ \A a \in Ancestors(q) \cup {q} :
          HasPrefix(a, root) => (a \in DOMAIN fs /\ fs[a].kind = "dir" /\ ~IsHiddenDir(fs, a))}}

\* A folder link names a directory of the vault, letter case aside
FolderExists(t) == \E d \in VaultFolders : ToLower(d \o <<"/">>) = ToLower(t)

\* The DeadLinks recorded for one target on one line of one file
DeadLinksFor(g, n, t) ==
  Cardinality({i \in 1..Len(result.DeadLinks) :
                 result.DeadLinks[i] = [SourceFile |-> Rel(root, g), Target |-> t, Line |-> n]})

\* C13: a folder link (normalized target ending in "/") is valid, with no
\* DeadLink, iff a non-hidden directory with that relative path exists in the
\* vault, letter case aside; otherwise exactly one DeadLink is recorded for the
\* occurrence, its target being the link as written with the trailing "/".
C13_FolderLinks ==
  scanPc = "done" =>
    \A g \in MdFileSet :
      ReadToEnd(g) =>
        LET lines == ScannedLines(ReadContent(fs, g)).lines
        IN \A n \in 1..Len(lines) :
             \A o \in Occurrences(lines[n]) :
               isFolderLink(o.target) =>
                 DeadLinksFor(g, n, o.target)
                   = (IF FolderExists(o.target) THEN 0
                      ELSE Cardinality({q \in Occurrences(lines[n]) : q.target = o.target}))

\* ------------------------------------------------------------------------
\* isPathWithinVault applied to bounded paths
\* ------------------------------------------------------------------------

\* The longest candidate path, in characters
MaxPathLen == 5

\* Candidates: every string of separators, dots and two letters, so that
\* siblings ("/vv"), "..", "." and doubled separators all occur
WithinPaths == UNION {[1..n -> {"/", ".", "v", "w"}] : n \in 0..MaxPathLen}

\* Roots: absolute, with a trailing separator, nested, relative, the
\* filesystem root
WithinRoots == {<<"/", "v">>, <<"/", "v", "/">>, <<"/", "v", "/", "w">>, <<"/", "w", "/", ".", ".", "/", "v">>, <<".">>, <<"w">>, <<"/">>}

WithinInit ==
  /\ \E p \in WithinPaths, r \in WithinRoots : nIn = [path |-> p, vaultPath |-> r]
  /\ nOut = <<>>
  /\ root = VaultRoot
  /\ fs = BaseTree
  /\ touched = {}
  /\ ScanIdle
  /\ RenameIdle

\* One call of isPathWithinVault
WithinStep ==
  /\ nOut = <<>>
  /\ nOut' = <<isPathWithinVault(nIn.path, nIn.vaultPath)>>
  /\ UNCHANGED <<nIn, commonVars, scanVars, renameVars, cli, ev>>

SpecWithin == WithinInit /\ [][WithinStep]_vars

\* The names on the way from the filesystem root to an absolute cleaned path
PathNames(p) == SelectSeq(SplitSlash(p), LAMBDA c : c # <<>>)

\* r followed by exactly one separator starts c
BeginsWithRootAndSeparator(c, r) ==
  /\ Len(c) > Len(r) + 1
  /\ SubSeq(c, 1, Len(r)) = r
  /\ c[Len(r) + 1] = "/"
  /\ c[Len(r) + 2] # "/"

\* c is a sibling of r whose name has r's name as a string prefix
PrefixSibling(c, r) ==
  /\ r # <<"/">>
  /\ HasPrefix(c, r)
  /\ Len(c) > Len(r)
  /\ c[Len(r) + 1] # "/"

\* C14: isPathWithinVault is true iff the cleaned absolute candidate is the
\* cleaned absolute root or begins with the root followed by exactly one
\* separator, i.e. (for a root other than "/") the names of the root are the
\* first names of the candidate; a sibling whose name has the root as a string
\* prefix, and a candidate whose ".." segments climb out of the root, give false.
C14_WithinVault ==
  nOut # <<>> =>
    LET c == Abs(nIn.path)
        r == Abs(nIn.vaultPath)
    IN /\ nOut[1] = (c = r \/ BeginsWithRootAndSeparator(c, r))
       /\ r # <<"/">> =>
            nOut[1] = (/\ Len(PathNames(r)) <= Len(PathNames(c))
                       /\ SubSeq(PathNames(c), 1, Len(PathNames(r))) = PathNames(r))
       /\ PrefixSibling(c, r) => ~nOut[1]

\* C14's case: the function has answered for a sibling of the root whose
\* name starts with the root's name
C14_Witness ==
  /\ nOut # <<>>
  /\ PrefixSibling(Abs(nIn.path), Abs(nIn.vaultPath))

\* C14's other case: a candidate written below the root that climbs out of it
\* with ".."
C14_WitnessClimb ==
  /\ nOut # <<>>
  /\ HasPrefix(nIn.path, nIn.vaultPath \o <<"/">>)
  /\ Contains(nIn.path, <<".", ".">>)
  /\ ~nOut[1]

\* ------------------------------------------------------------------------
\* Staleness levels of the patterns command
\* ------------------------------------------------------------------------

\* stalenessLevels: per level the lower day bound and the upper one, -1 for none
stalenessLevels ==
  [fresh |-> <<0, 30>>, recent |-> <<30, 90>>, aging |-> <<90, 180>>,
   stale |-> <<180, 365>>, ancient |-> <<365, -1>>]

\* The order in which getStalenessLevel tries the levels
LevelOrder == <<"fresh", "recent", "aging", "stale", "ancient">>

\* A plausible slip: the upper bound taken as inclusive
RECURSIVE LevelFrom_closedUpper(_, _)
LevelFrom_closedUpper(ageDays, k) ==
  IF k > Len(LevelOrder) THEN "fresh"
  ELSE LET minDays == stalenessLevels[LevelOrder[k]][1]
           maxDays == stalenessLevels[LevelOrder[k]][2]
       IN IF maxDays = -1
            THEN (IF ageDays >= minDays THEN LevelOrder[k]
                  ELSE LevelFrom_closedUpper(ageDays, k + 1))
          ELSE IF ageDays >= minDays /\ ageDays <= maxDays THEN LevelOrder[k]
          ELSE LevelFrom_closedUpper(ageDays, k + 1)

\* The loop of getStalenessLevel from the k-th level on
RECURSIVE LevelFrom(_, _)
LevelFrom(ageDays, k) ==
  IF k > Len(LevelOrder) THEN "fresh"
  ELSE LET minDays == stalenessLevels[LevelOrder[k]][1]
           maxDays == stalenessLevels[LevelOrder[k]][2]
       IN IF maxDays = -1
            THEN (IF ageDays >= minDays THEN LevelOrder[k]
                  ELSE LevelFrom(ageDays, k + 1))
          ELSE IF ageDays >= minDays /\ ageDays < maxDays THEN LevelOrder[k]
          ELSE LevelFrom(ageDays, k + 1)

getStalenessLevel_closedUpper(ageDays) == LevelFrom_closedUpper(ageDays, 1)

\* getStalenessLevel
getStalenessLevel(ageDays) == LevelFrom(ageDays, 1)

\* The oldest age of the harness, in days
MaxAgeDays == 400

StalenessInit ==
  /\ nIn \in 0..MaxAgeDays
  /\ nOut = <<>>
  /\ root = VaultRoot
  /\ fs = BaseTree
  /\ touched = {}
  /\ ScanIdle
  /\ RenameIdle

\* One call of getStalenessLevel
StalenessStep ==
  /\ nOut = <<>>
  /\ nOut' = <<getStalenessLevel(nIn)>>
  /\ UNCHANGED <<nIn, commonVars, scanVars, renameVars, cli, ev>>

SpecStaleness == StalenessInit /\ [][StalenessStep]_vars

\* The levels whose half-open range of days holds an age
LevelsHolding(age) ==
  {l \in DOMAIN stalenessLevels :
     /\ age >= stalenessLevels[l][1]
     /\ stalenessLevels[l][2] = -1 \/ age < stalenessLevels[l][2]}

\* C15: getStalenessLevel gives every age of 0 days or more exactly one level,
\* with half-open boundaries: fresh for [0,30), recent for [30,90), aging for
\* [90,180), stale for [180,365), ancient from 365 on; no gap and no overlap.
C15_StalenessPartition ==
  nOut # <<>> =>
    /\ nOut[1] = (IF nIn < 30 THEN "fresh"
                  ELSE IF nIn < 90 THEN "recent"
                  ELSE IF nIn < 180 THEN "aging"
                  ELSE IF nIn < 365 THEN "stale"
                  ELSE "ancient")
    /\ LevelsHolding(nIn) = {nOut[1]}

\* C15's case: the level of an age on a boundary has been computed
C15_Witness == nOut # <<>> /\ nIn \in {30, 90, 180, 365}

\* ------------------------------------------------------------------------
\* The worker pool
\* ------------------------------------------------------------------------

\* The aggregates the workers write
SharedAggregates == <<result.IncomingLinks, result.DeadLinks, result.FrontmatterErrs>>

\* A worker is inside processFile
Working(w) == workers[w].pc \in {"lock", "crit"}

\* C16: the orphan pass starts only after every worker has finished its last
\* file (the WaitGroup join), and from that moment on no worker increments
\* IncomingLinks or appends to DeadLinks or FrontmatterErrs.
C16_OrphanPassAfterJoin ==
  [][/\ scanPc # "done" /\ scanPc' = "done" =>
          /\ \A w \in WorkerIds : ~Working(w) /\ workers[w].pc # "recv"
          /\ fileChan = <<>> /\ unsent = <<>>
          /\ SharedAggregates' = SharedAggregates
     /\ scanPc = "done" =>
          /\ SharedAggregates' = SharedAggregates
          /\ workers' = workers]_vars

\* C16's case: both workers have left their loop and the scan has returned
\* with links counted and a file without frontmatter recorded
C16_Witness ==
  /\ scanPc = "done"
  /\ Cardinality({w \in WorkerIds : workers[w].pc = "exit"}) >= 2
  /\ result.FrontmatterErrs # <<>>
  /\ result.IncomingLinks # <<>>

\* The link occurrences of a file: where each stands and its normalized target
OccurrenceSites(g) ==
  LET lines == ScannedLines(ReadContent(fs, g)).lines
  IN UNION {{[file |-> g, line |-> n, tstart |-> o.tstart, target |-> o.target] :
               o \in Occurrences(lines[n])} : n \in 1..Len(lines)}

\* An occurrence that counts as an incoming link: its target is neither empty
\* nor external (asset, folder and dead targets count)
IsCounted(t) == t # <<>> /\ ~isExternalLink(t)

\* The occurrences in the files read to their end that count for the key k
CountedFor(k) ==
  Cardinality({x \in UNION {OccurrenceSites(g) : g \in {f \in MdFileSet : ReadToEnd(f)}} :
                 IsCounted(x.target) /\ ToLower(x.target) = k})

\* The keys a scan of this vault can count
LinkKeys ==
  {ToLower(x.target) : x \in UNION {OccurrenceSites(g) : g \in MdFileSet}}

\* No entry of IncomingLinks decreases in a step
IncomingLinksGrow ==
  \A k \in DOMAIN result.IncomingLinks :
    k \in DOMAIN result'.IncomingLinks /\ result'.IncomingLinks[k] >= result.IncomingLinks[k]

\* When ScanVault has returned every entry is the number of counted occurrences
IncomingLinksExact ==
  scanPc = "done" =>
    \A k \in LinkKeys \cup DOMAIN result.IncomingLinks :
      Count(result.IncomingLinks, k) = CountedFor(k)

\* C17: under every interleaving of the workers each IncomingLinks entry only
\* increases during a scan and no increment is lost: when ScanVault returns,
\* IncomingLinks[t] is the number of link occurrences in the parsed files whose
\* normalized target is not empty, not external and lower-cases to t (asset
\* and dead targets included).
C17_IncomingLinksExact == [][IncomingLinksGrow]_vars /\ []IncomingLinksExact

\* How often x occurs in a sequence
Times(seq, x) == Cardinality({i \in 1..Len(seq) : seq[i] = x})

\* Where a collected file is: waiting to be sent, in the channel, in a
\* worker's hands, or returned from processFile
Holdings(p) ==
  Times(unsent, p) + Times(fileChan, p)
    + Cardinality({w \in WorkerIds : workers[w].path = p})
    + Cardinality({i \in 1..Len(parsed) : parsed[i].path = p})

\* The goroutines that were started
Started == {w \in WorkerIds : workers[w].pc # "none"}

\* C18: every markdown file the walker collected is handed to exactly one
\* worker and parsed exactly once, none skipped and none twice, by a pool of
\* exactly min(file count, CPU count, 8) workers, so that at most 8 files are
\* being parsed at any moment.
C18_EachFileOnce ==
  scanPc \in {"send", "wait", "done"} =>
    /\ \A p \in MdFileSet : Holdings(p) = 1
    /\ \A i \in 1..Len(parsed) : parsed[i].path \in MdFileSet
    /\ Cardinality(Started) = Min(Len(mdFiles), Min(numCPU, 8))
    /\ Cardinality({w \in WorkerIds : Working(w)}) <= 8
    /\ scanPc = "done" =>
         \A p \in MdFileSet : Cardinality({i \in 1..Len(parsed) : parsed[i].path = p}) = 1

\* C18's case: a scan of more files than the pool's limit, on a machine with
\* more processors than the limit, has returned
C18_Witness ==
  /\ scanPc = "done"
  /\ Len(mdFiles) > MaxWorkers
  /\ numCPU > MaxWorkers
  /\ Len(parsed) = Len(mdFiles)

\* ------------------------------------------------------------------------
\* Files that cannot be read
\* ------------------------------------------------------------------------

\* processFile could not open the file, or its read failed partway
FailedFile(g) ==
  \E i \in 1..Len(parsed) : parsed[i].path = g /\ parsed[i].outcome \in {"unopened", "readerr"}

\* C19: a markdown file that cannot be opened, or whose line-by-line read
\* fails after some lines were read, contributes nothing to the shared
\* aggregates: the result holds no DeadLink and no FrontmatterErrs entry of
\* that file, and no IncomingLinks count that only that file's links explain.
C19_FailedFileContributesNothing ==
  scanPc = "done" =>
    /\ \A g \in MdFileSet :
         FailedFile(g) =>
           /\ \A i \in 1..Len(result.DeadLinks) : result.DeadLinks[i].SourceFile # Rel(root, g)
           /\ \A i \in 1..Len(result.FrontmatterErrs) : result.FrontmatterErrs[i] # Rel(root, g)
    /\ \A k \in DOMAIN result.IncomingLinks : CountedFor(k) = 0 => result.IncomingLinks[k] = 0

\* ------------------------------------------------------------------------
\* The files Analyze searches
\* ------------------------------------------------------------------------

\* runRename got past its analysis
Analyzed == rn.pc # "idle" /\ rn.err \notin PreOpErrors

\* C20: Analyze searches every markdown file of the vault except the resolved
\* source file itself: every line of any other file that holds a link to the
\* old name is in the change list, also when that file is in another folder
\* and has the source's basename; the source file has no line in the list.
C20_AnalyzeScansAllButSource ==
  Analyzed =>
    /\ \A p \in MdFilesOf(fs0) :
         p # rn.source => FileChangesComplete(p, LinesOf(fs0, p))
    /\ \A k \in 1..Len(rn.changes) : rn.changes[k].File # Rel(root, rn.source)

\* ------------------------------------------------------------------------
\* Which links a rename takes for backlinks
\* ------------------------------------------------------------------------

\* The normalized target is, letter case aside, the old name's basename or the
\* old name itself
NamesOld(capture, oldName) ==
  \/ EqualFold(normalizeLink(capture), Base(oldName))
  \/ EqualFold(normalizeLink(capture), oldName)

\* A line holds a link that names the old note
LineNamesOld(line, oldName) ==
  LET ms == FindAllWikilinks(line, 1)
  IN \E i \in 1..Len(ms) : NamesOld(Capture(line, ms[i]), oldName)

\* The line with the targets that name the old note replaced, and nothing else
RECURSIVE RewriteNamed(_, _, _, _, _, _)
RewriteNamed(line, ms, k, pos, oldName, newName) ==
  IF k > Len(ms) THEN SubSeq(line, pos, Len(line))
  ELSE SubSeq(line, pos, ms[k].tstart - 1)
       \o (IF NamesOld(Capture(line, ms[k]), oldName)
             THEN NewLinkText(Capture(line, ms[k]), newName)
           ELSE Capture(line, ms[k]))
       \o RewriteNamed(line, ms, k + 1, ms[k].tend, oldName, newName)

\* C21: during rename a link occurrence is taken for a backlink (reported by
\* Analyze and rewritten) iff its normalized target equals, letter case aside,
\* the old identifier's basename or its full form; an occurrence with any
\* other target, such as a path in another folder that ends in the same
\* basename, is neither reported nor rewritten.
C21_BacklinkIffNamesOld ==
  Analyzed =>
    \A k \in 1..Len(rn.changes) :
      /\ LineNamesOld(rn.changes[k].OldContent, rn.old)
      /\ rn.changes[k].NewContent =
           RewriteNamed(rn.changes[k].OldContent, FindAllWikilinks(rn.changes[k].OldContent, 1),
                        1, 1, rn.old, rn.new)

\* ------------------------------------------------------------------------
\* The text a matching link is given
\* ------------------------------------------------------------------------

\* The occurrence names the note through a path
PathQualified(capture) == Contains(normalizeLink(capture), <<"/">>)

\* The replacement as stated: the new identifier for a path-qualified
\* occurrence, its basename for a bare one, then the occurrence's own suffix
StatedLinkText(capture, newName) ==
  (IF PathQualified(capture) THEN newName ELSE Base(newName)) \o LinkSuffix(capture)

\* The line with the k-th and later targets replaced by the given texts
RECURSIVE WithTargets(_, _, _, _, _)
WithTargets(line, ms, k, pos, texts) ==
  IF k > Len(ms) THEN SubSeq(line, pos, Len(line))
  ELSE SubSeq(line, pos, ms[k].tstart - 1) \o texts[k]
       \o WithTargets(line, ms, k + 1, ms[k].tend, texts)

\* The line as the statement rewrites it
StatedRewrite(line, ms, oldName, newName) ==
  WithTargets(line, ms, 1, 1,
    [k \in 1..Len(ms) |->
       IF MatchesOldName(Capture(line, ms[k]), oldName)
         THEN StatedLinkText(Capture(line, ms[k]), newName)
       ELSE Capture(line, ms[k])])

\* C22: every matching occurrence is replaced by the full new identifier when
\* it was path-qualified and by the new basename alone when it was a bare
\* basename, followed by the occurrence's own heading suffix (from the first
\* "#") or block suffix (from the first "^"), unchanged.
C22_ReplacementText ==
  nOut # <<>> =>
    nOut[1] = StatedRewrite(nIn.line, FindAllWikilinks(nIn.line, 1), nIn.oldName, nIn.newName)

\* ------------------------------------------------------------------------
\* What Execute writes against what Analyze reported
\* ------------------------------------------------------------------------

\* A content cut at its line terminators, and put together again
RECURSIVE CutAtNewlines(_)
CutAtNewlines(content) ==
  LET i == IndexOf(content, <<"\n">>)
  IN IF i = 0 THEN <<content>>
     ELSE <<SubSeq(content, 1, i - 1)>> \o CutAtNewlines(SubSeq(content, i + 1, Len(content)))

RECURSIVE JoinWithNewlines(_)
JoinWithNewlines(lines) ==
  IF Len(lines) = 1 THEN lines[1]
  ELSE lines[1] \o <<"\n">> \o JoinWithNewlines(Tail(lines))

\* The content with each reported line of the file replaced by its NewContent
WithReportedEdits(content, file) ==
  LET lines == CutAtNewlines(content)
  IN JoinWithNewlines(
       [i \in 1..Len(lines) |->
          IF \E k \in 1..Len(rn.changes) : rn.changes[k].File = file /\ rn.changes[k].Line = i
            THEN (CHOOSE c \in {rn.changes[k] : k \in 1..Len(rn.changes)} :
                    c.File = file /\ c.Line = i).NewContent
          ELSE lines[i]])

\* The files Execute has rewritten
WrittenFiles == {rn.log[i].file : i \in {j \in 1..Len(rn.log) : rn.log[j].ev = "write"}}

\* C23: Execute writes to each affected file exactly the edits Analyze
\* reported: the written content is the original content with every reported
\* line replaced by its NewContent and every other line and every line
\* terminator unchanged, also when a "[[" and its "]]" are on different lines.
C23_ExecuteWritesReportedEdits ==
  \A file \in WrittenFiles :
    LET real == EvalSymlinks(fs0, Join(root, file))
    IN fs[real].content = WithReportedEdits(fs0[real].content, file)

\* ------------------------------------------------------------------------
\* Frontmatter
\* ------------------------------------------------------------------------

\* The first line of the file begins with "---"
FirstLineOpensFrontmatter(g) ==
  LET content == ReadContent(fs, g)
  IN Len(content) >= 3 /\ SubSeq(content, 1, 3) = <<"-", "-", "-">>

\* C24: a markdown file read to its end without error is in FrontmatterErrs
\* exactly once iff its first line does not begin with "---"; an empty file has
\* no first line and is recorded; a "---" on a later line does not count.
C24_FrontmatterErrs ==
  scanPc = "done" =>
    \A g \in MdFileSet :
      ReadToEnd(g) =>
        Times(result.FrontmatterErrs, Rel(root, g))
          = (IF FirstLineOpensFrontmatter(g) THEN 0 ELSE 1)

\* C24's case: the scan has returned after reading a file whose second line,
\* and not its first, begins with "---"
C24_Witness ==
  /\ scanPc = "done"
  /\ \E g \in MdFileSet :
       /\ ReadToEnd(g)
       /\ ~FirstLineOpensFrontmatter(g)
       /\ Contains(ReadContent(fs, g), <<"\n", "-", "-", "-">>)

\* ------------------------------------------------------------------------
\* What the normalizer removes
\* ------------------------------------------------------------------------

\* The positions of the markers "#" and "^" in a string
MarkerPositions(x) == {i \in 1..Len(x) : x[i] \in {"#", "^"}}

\* x up to its first marker, the whole of x when it has none
BeforeFirstMarker(x) ==
  IF MarkerPositions(x) = {} THEN x
  ELSE SubSeq(x, 1, (CHOOSE i \in MarkerPositions(x) : \A j \in MarkerPositions(x) : i <= j) - 1)

\* C25: normalizeLink(x) is x without the suffix that starts at the first "#"
\* or "^" of x: x itself when it has neither, the empty string when x begins
\* with a marker, also when x holds both markers in either order.
C25_NormalizeCutsAtFirstMarker ==
  nOut # <<>> => nOut[1] = BeforeFirstMarker(nIn)

\* ------------------------------------------------------------------------
\* The worker pool of ScanVault, by counts: how many files are unsent, how
\* many sit in the channel, where the sender and each goroutine stand
\* ------------------------------------------------------------------------

\* The numbers of markdown files the walk can have found and the machine's
\* processors: no file, one and a few on either machine, and more files than the
\* channel's buffer can ever hold on the machine of two processors
PoolShapes ==
  ({0, 1, 2, 3} \X CPUCounts) \cup {<<MaxChanBuffer + 1, 2>>}

PoolInit ==
  /\ pool \in {[IdlePool EXCEPT !.pc = "start", !.files = sh[1], !.cpus = sh[2]] :
                 sh \in PoolShapes}
  /\ root = VaultRoot /\ fs = BaseTree /\ touched = {}
  /\ scanPc = "start" /\ mdFiles = <<>> /\ existingFiles = {} /\ existingFolders = {}
  /\ fileChan = <<>> /\ chanCap = 0 /\ chanClosed = FALSE /\ unsent = <<>>
  /\ workers = [w \in WorkerIds |-> IdleWorker] /\ mu = 0 /\ result = EmptyResult
  /\ parsed = <<>> /\ faults = 0 /\ numCPU = 2
  /\ cli = IdleCli /\ ev = IdleEv
  /\ NormIdle /\ RenameIdle

PoolUnchanged == UNCHANGED <<commonVars, normVars, renameVars, scanPc, mdFiles,
                             existingFiles, existingFolders, fileChan, chanCap,
                             chanClosed, unsent, workers, mu, result, parsed, faults,
                             numCPU, cli, ev>>

\* bufferSize, numWorkers, make(chan string, bufferSize), the goroutines started
PoolStart ==
  /\ pool.pc = "start"
  /\ pool' = [pool EXCEPT
                !.pc = "send",
                !.cap = Min(pool.files, MaxChanBuffer),
                !.unsent = pool.files,
                !.ws = [w \in WorkerIds |->
                          IF w <= NumWorkers(pool.files, pool.cpus) THEN "recv" ELSE "none"]]
  /\ PoolUnchanged

\* fileChan <- f: blocks while the buffer is full
PoolSend ==
  /\ pool.pc = "send"
  /\ pool.unsent > 0
  /\ pool.inChan < pool.cap
  /\ pool' = [pool EXCEPT !.unsent = @ - 1, !.inChan = @ + 1]
  /\ PoolUnchanged

\* The sender after its loop, with the channel left open
CloseChan_forgotten(p) == [p EXCEPT !.pc = "wait"]

\* close(fileChan), the sender goes on to wg.Wait()
CloseChan(p) == [p EXCEPT !.closed = TRUE, !.pc = "wait"]

PoolClose ==
  /\ pool.pc = "send"
  /\ pool.unsent = 0
  /\ pool' = CloseChan(pool)
  /\ PoolUnchanged

\* for path := range fileChan { processFile(...) }: one file taken and processed
PoolRecv(w) ==
  /\ pool.ws[w] = "recv"
  /\ pool.inChan > 0
  /\ pool' = [pool EXCEPT !.inChan = @ - 1]
  /\ PoolUnchanged

\* The range loop ends on a closed and drained channel; defer wg.Done()
PoolExit(w) ==
  /\ pool.ws[w] = "recv"
  /\ pool.inChan = 0
  /\ pool.closed
  /\ pool' = [pool EXCEPT !.ws[w] = "exit"]
  /\ PoolUnchanged

\* wg.Wait() returns and ScanVault goes on to return
PoolFinish ==
  /\ pool.pc = "wait"
  /\ \A w \in WorkerIds : pool.ws[w] \in {"none", "exit"}
  /\ pool' = [pool EXCEPT !.pc = "done"]
  /\ PoolUnchanged

PoolSender == PoolStart \/ PoolSend \/ PoolClose \/ PoolFinish

PoolWorker(w) == PoolRecv(w) \/ PoolExit(w)

PoolNext ==
  \/ PoolStart
  \/ PoolSend
  \/ PoolClose
  \/ \E w \in WorkerIds : PoolRecv(w)
  \/ \E w \in WorkerIds : PoolExit(w)
  \/ PoolFinish

\* The Go scheduler runs every goroutine that can take a step: the sender and
\* each worker are weakly fair
SpecPool ==
  /\ PoolInit
  /\ [][PoolNext]_vars
  /\ WF_vars(PoolSender)
  /\ \A w \in WorkerIds : WF_vars(PoolWorker(w))

\* C26: once ScanVault has started on a valid root it returns, whatever the
\* number of files (none, with no worker and an unbuffered channel; one; more
\* than the buffer's cap) and whatever the interleaving: the sender is never
\* blocked for ever, every worker exits once the channel is closed, and
\* wg.Wait() returns.
C26_ScanReturns ==
  <>[](/\ pool.pc = "done"
       /\ pool.unsent = 0 /\ pool.inChan = 0
       /\ \A w \in WorkerIds : pool.ws[w] \in {"none", "exit"})

\* ScanVault has returned from a vault of more files than the buffer holds
C26_Witness ==
  /\ pool.pc = "done"
  /\ pool.files > MaxChanBuffer
  /\ \E w \in WorkerIds : pool.ws[w] = "exit"

\* The sender stands blocked on a full buffer
C26_WitnessBlocked ==
  /\ pool.pc = "send" /\ pool.unsent > 0 /\ pool.inChan = pool.cap

\* ScanVault has returned with no worker started and an unbuffered channel
C26_WitnessEmpty ==
  /\ pool.pc = "done" /\ pool.files = 0 /\ pool.cap = 0
  /\ \A w \in WorkerIds : pool.ws[w] = "none"

\* ------------------------------------------------------------------------
\* The commands that operate on a vault, and the --vault flag
\* ------------------------------------------------------------------------

VaultCommands ==
  {"health", "stats", "orphans", "deadlinks", "links", "backlinks", "tags", "search",
   "rename", "unused-assets"}

\* Values of --vault: not given (the flag's default, the empty string), the
\* vault by its absolute path, the vault as the working directory
VaultFlags == {<<>>, <<"/", "v">>, <<".">>}

\* The rename arguments of the command line
CliOldArgs == {<<"A", ".", "m", "d">>, <<"x">>}
CliNewArgs == {<<"B">>}

RequiredVaultErr == "required flag \"vault\" not set"

\* RequireVault: the error, "" for nil
RequireVault(vaultPath) == IF vaultPath = <<>> THEN RequiredVaultErr ELSE ""

CliInit ==
  /\ \E c \in VaultCommands, v \in VaultFlags :
       cli = [cmd |-> c, vault |-> v, pc |-> "start", err |-> ""]
  /\ root = <<>>
  /\ \E notes \in RenameNoteSets, c \in RenameContents :
       fs = [p \in DOMAIN RenameTree \cup notes \cup {RenameLinker} |->
               IF p = RenameLinker THEN FileE(c)
               ELSE IF p = <<"/", "v", "/", "d", "/", "B", ".", "m", "d">> THEN FileE(<<"[", "[", "A", "]", "]">>)
               ELSE IF p \in notes THEN FileE(<<"x">>)
               ELSE RenameTree[p]]
  /\ touched = {}
  /\ \E b \in Builds : rn = [IdleRename EXCEPT !.build = b]
  /\ fs0 = fs /\ fsOrig = fs /\ cmds = <<>>
  /\ pool = IdlePool /\ ev = IdleEv
  /\ scanPc = "start" /\ mdFiles = <<>> /\ existingFiles = {} /\ existingFolders = {}
  /\ fileChan = <<>> /\ chanCap = 0 /\ chanClosed = FALSE /\ unsent = <<>>
  /\ workers = [w \in WorkerIds |-> IdleWorker] /\ mu = 0 /\ result = EmptyResult
  /\ parsed = <<>> /\ faults = 0 /\ numCPU = 2
  /\ NormIdle

\* What no handler changes before it has resolved the vault
CliFrame == UNCHANGED <<fs, normVars, scanVars, ev>>

\* if err := RequireVault(); err != nil { return err }
ReturnRequired ==
  /\ cli' = [cli EXCEPT !.pc = "done", !.err = RequiredVaultErr]
  /\ UNCHANGED <<root, touched, renameVars>>
  /\ CliFrame

\* The handler goes on to the vault: filepath.Abs(vaultPath), then the first
\* call on the filesystem, os.Stat in ScanVault or the walk from the root, on
\* which the rest of the handler, which only reads, depends
UseVault(op) ==
  LET absPath == Clean(Abs(cli.vault))
  IN /\ root' = absPath
     /\ touched' = touched \cup {[op |-> op, path |-> absPath]}
     /\ cli' = [cli EXCEPT !.pc = "done",
                           !.err = IF StatOK(fs, absPath) /\ fs[EvalSymlinks(fs, absPath)].kind = "dir"
                                     THEN "" ELSE "scan failed"]
     /\ UNCHANGED renameVars
     /\ CliFrame

\* A handler that calls RequireVault first
Guarded(c, op) ==
  /\ cli.pc = "start"
  /\ cli.cmd = c
  /\ IF RequireVault(cli.vault) # "" THEN ReturnRequired ELSE UseVault(op)

\* A handler that does not
Unguarded(c, op) ==
  /\ cli.pc = "start"
  /\ cli.cmd = c
  /\ UseVault(op)

runHealth == Guarded("health", "stat")

runStats == Unguarded("stats", "stat")

runOrphans == Guarded("orphans", "stat")

runDeadlinks == Unguarded("deadlinks", "stat")

runLinks == Unguarded("links", "walk")

runBacklinks == Unguarded("backlinks", "walk")

runTags == Unguarded("tags", "walk")

runSearch == Guarded("search", "walk")

runUnusedAssets == Guarded("unused-assets", "walk")

\* runRename from the resolved vault path on, a the state that the checks and
\* the analysis give
RenameIn(absPath, a) ==
  /\ root' = absPath
  /\ rn' = a
  /\ touched' = touched \cup {[op |-> "walk", path |-> absPath]} \cup
       (IF a.err = "" THEN {[op |-> "open", path |-> p] : p \in AnalysisOpens(fs, absPath, a.old)}
        ELSE {})
  /\ cmds' = Append(cmds, [old |-> a.old, new |-> a.new, dryRun |-> a.dryRun])
  /\ cli' = [cli EXCEPT !.pc = "done", !.err = a.err]
  /\ UNCHANGED <<fs0, fsOrig>>
  /\ CliFrame

\* runRename: filepath.Abs(vaultPath), then the checks and the analysis;
\* executeRename follows in ExecFile and ExecMove
runRename ==
  /\ cli.pc = "start"
  /\ cli.cmd = "rename"
  /\ \E oldArg \in CliOldArgs, newArg \in CliNewArgs, dryRun \in BOOLEAN :
       RenameIn(Clean(Abs(cli.vault)),
                Analyze(rn.build, fs, Clean(Abs(cli.vault)), oldArg, newArg, dryRun))

CliNext ==
  \/ runHealth
  \/ runStats
  \/ runOrphans
  \/ runDeadlinks
  \/ runLinks
  \/ runBacklinks
  \/ runTags
  \/ runSearch
  \/ runUnusedAssets
  \/ runRename
  \/ ExecFile
  \/ ExecMove

SpecCommands == CliInit /\ [][CliNext]_vars

\* The command has returned
Returned == cli.pc = "done" /\ rn.pc \in {"idle", "failed", "done"}

\* C27: with an empty --vault flag every command that operates on a vault
\* returns the error required flag "vault" not set, before it has accessed or
\* changed anything in the filesystem; none takes the working directory for
\* the vault.
C27_VaultRequired ==
  (Returned /\ cli.vault = <<>>) =>
    (cli.err = RequiredVaultErr /\ touched = {} /\ fs = fsOrig /\ root = <<>>)

\* The same for the four commands whose handler calls RequireVault
C27_VaultRequiredWhereChecked ==
  (Returned /\ cli.vault = <<>> /\ cli.cmd \in {"health", "orphans", "search", "unused-assets"}) =>
    (cli.err = RequiredVaultErr /\ touched = {} /\ fs = fsOrig /\ root = <<>>)

\* rename without --vault has moved a note of the working directory
C27_RenamedInWorkingDir ==
  /\ Returned /\ cli.vault = <<>> /\ cli.cmd = "rename"
  /\ fs # fsOrig

\* ------------------------------------------------------------------------
\* The scan over every width of the pool
\* ------------------------------------------------------------------------

\* Machines of one processor up to as many as the pool's limit
WidthCPUs == 1..MaxWorkers

\* The notes of a vault of as many notes as the pool's limit
WidthCrowd ==
  {<<"/", "v", "/", "a", ".", "m", "d">>, <<"/", "v", "/", "b", ".", "m", "d">>, <<"/", "v", "/", "c", ".", "m", "d">>, <<"/", "v", "/", "e", ".", "m", "d">>, <<"/", "v", "/", "h", ".", "m", "d">>, <<"/", "v", "/", "i", ".", "m", "d">>, <<"/", "v", "/", "p", ".", "m", "d">>, <<"/", "v", "/", "s", ".", "m", "d">>}

\* Vaults whose notes update the shared result from several files, each with
\* the machines that give it every width of the pool it can have: three notes
\* on up to three processors, and eight notes, of which the last two hold the
\* same dead link, on up to eight
WidthShapes ==
  {<<[p \in DOMAIN BaseTree \cup {<<"/", "v", "/", "a", ".", "m", "d">>, ScanLinker, ScanThird} |->
        IF p = <<"/", "v", "/", "a", ".", "m", "d">> THEN FileE(<<"-", "-", "-">>)
        ELSE IF p = ScanLinker THEN FileE(c)
        ELSE IF p = ScanThird THEN FileE(<<"[", "[", "x", "]", "]">>)
        ELSE BaseTree[p]], n>> : c \in ScanBusyContents, n \in 1..3}
  \cup
  {<<[p \in DOMAIN BaseTree \cup WidthCrowd |->
        IF p \in {<<"/", "v", "/", "p", ".", "m", "d">>, <<"/", "v", "/", "s", ".", "m", "d">>} THEN FileE(<<"-", "-", "-", "\n", "[", "[", "x", "]", "]">>)
        ELSE IF p \in WidthCrowd THEN FileE(<<"-", "-", "-">>)
        ELSE BaseTree[p]], n>> : n \in WidthCPUs}

WidthInit ==
  /\ root = VaultRoot
  /\ \E sh \in WidthShapes : fs = sh[1] /\ numCPU = sh[2]
  /\ touched = {}
  /\ ScanAtStart
  /\ NormIdle
  /\ RenameIdle

SpecWidths == WidthInit /\ [][ScanNext]_vars

\* processFile opened the file
Opened(f) ==
  \E i \in 1..Len(parsed) : parsed[i].path = f /\ parsed[i].outcome \in {"read", "readerr"}

\* The updates of the files of md that were opened, file after file in the
\* order of md
RECURSIVE OpsInOrder(_)
OpsInOrder(md) ==
  IF md = <<>> THEN <<>>
  ELSE (IF Opened(Head(md))
          THEN ProcessFileOps(fs, root, Head(md), existingFiles, existingFolders)
        ELSE <<>>) \o OpsInOrder(Tail(md))

\* The updates ops made one after the other on res
RECURSIVE ApplyAll(_, _)
ApplyAll(res, ops) ==
  IF ops = <<>> THEN res ELSE ApplyAll(ApplyOp(res, Head(ops)), Tail(ops))

\* What one goroutine that takes the files in walk order leaves in the result
InOrderResult == ApplyAll(EmptyResult, OpsInOrder(mdFiles))

\* The two sequences hold the same elements the same number of times
SameBag(s, t) ==
  /\ Len(s) = Len(t)
  /\ \A i \in 1..Len(s) : Times(s, s[i]) = Times(t, s[i])

\* The returned result and r differ in the order of the two lists at most
SameUpToOrder(r) ==
  /\ result.IncomingLinks = r.IncomingLinks
  /\ result.Orphans = OrphanList(r, root, mdFiles)
  /\ SameBag(result.DeadLinks, r.DeadLinks)
  /\ SameBag(result.FrontmatterErrs, r.FrontmatterErrs)

\* C28: for a vault and the files that could be opened, what ScanVault returns
\* does not depend on the scheduling: under every interleaving and every pool
\* width from 1 to 8 the IncomingLinks map, the Orphans list, the multiset of
\* DeadLinks and the set of FrontmatterErrs are those of the run that takes the
\* files one by one in walk order; only the order of DeadLinks and of
\* FrontmatterErrs may differ.
C28_ResultIndependentOfScheduling ==
  scanPc = "done" => SameUpToOrder(InOrderResult)

\* A scan by several workers has returned its dead links in another order than
\* the walk's
C28_Witness ==
  /\ scanPc = "done"
  /\ Cardinality({w \in WorkerIds : workers[w].pc = "exit"}) >= 2
  /\ Len(result.DeadLinks) >= 2
  /\ result.DeadLinks # InOrderResult.DeadLinks
  /\ SameUpToOrder(InOrderResult)

\* A scan by a pool of eight has returned
C28_WitnessWidest ==
  /\ scanPc = "done"
  /\ Cardinality({w \in WorkerIds : workers[w].pc = "exit"}) = MaxWorkers
  /\ result.DeadLinks # InOrderResult.DeadLinks

\* ------------------------------------------------------------------------
\* The scan of a vault whose root directory is hidden
\* ------------------------------------------------------------------------

\* Vault roots: a plain directory, hidden directories, a plain directory
\* inside a hidden one
RootChoices == {<<"/", "v">>, <<"/", ".", "v">>, <<"/", "w", "/", ".", "o">>, <<"/", ".", "c", "/", "v">>}

\* Contents of the notes below the root
RootContents == {<<"-", "-", "-">>, <<"x">>, <<"[", "[", "x", "]", "]">>, <<"[", "[", "a", "]", "]", "\n", "[", "[", "x", "]", "]">>}

\* A vault at rt: a folder, two notes in the root, one in the folder, a file
\* that is no note
RootTree(rt, c1, c2) ==
  [p \in {rt, rt \o <<"/", "d">>, rt \o <<"/", "a", ".", "m", "d">>, rt \o <<"/", "g", ".", "m", "d">>, rt \o <<"/", "d", "/", "b", ".", "m", "d">>, rt \o <<"/", "t", ".", "p", "n", "g">>} |->
     IF p = rt \o <<"/", "a", ".", "m", "d">> THEN FileE(c1)
     ELSE IF p = rt \o <<"/", "g", ".", "m", "d">> THEN FileE(c2)
     ELSE IF p = rt \o <<"/", "d", "/", "b", ".", "m", "d">> THEN FileE(<<"[", "[", "g", "]", "]">>)
     ELSE IF p = rt \o <<"/", "t", ".", "p", "n", "g">> THEN FileE(<<"x">>)
     ELSE DirE]

RootInit ==
  /\ root \in RootChoices
  /\ \E c1 \in RootContents, c2 \in RootContents : fs = RootTree(root, c1, c2)
  /\ touched = {}
  /\ ScanAtStart
  /\ numCPU \in CPUCounts
  /\ NormIdle
  /\ RenameIdle

SpecRoots == RootInit /\ [][ScanNext]_vars

\* The vault root's own name begins with "."
HiddenRoot == HasPrefix(Base(root), <<".">>)

\* C29: the hidden-directory rule holds for the root of the walk too: when the
\* name of the vault root directory begins with ".", ScanVault skips the whole
\* tree and returns without error, with no file, no markdown file and no
\* directory counted and with empty Orphans, DeadLinks and FrontmatterErrs, and
\* it opens no file.
C29_HiddenRootScansNothing ==
  HiddenRoot =>
    /\ scanPc # "failed"
    /\ result.TotalFiles = 0
    /\ result.MarkdownFiles = 0
    /\ result.Directories = 0
    /\ result.Orphans = <<>> /\ result.DeadLinks = <<>> /\ result.FrontmatterErrs = <<>>
    /\ result.IncomingLinks = EmptyResult.IncomingLinks
    /\ mdFiles = <<>>
    /\ touched = {}

\* ScanVault has returned from a hidden root that holds notes with links
C29_Witness ==
  /\ HiddenRoot
  /\ scanPc = "done"
  /\ IsReadableFile(fs, root \o <<"/", "g", ".", "m", "d">>)
  /\ fs[root \o <<"/", "g", ".", "m", "d">>].content = <<"[", "[", "x", "]", "]">>

\* The same notes under a plain root, and under a plain directory that lies
\* inside a hidden one, are scanned
C29_WitnessPlain ==
  /\ ~HiddenRoot
  /\ root = <<"/", ".", "c", "/", "v">>
  /\ scanPc = "done"
  /\ result.MarkdownFiles = 3 /\ result.Directories = 2 /\ result.TotalFiles = 4

\* ------------------------------------------------------------------------
\* The surfacing-events file: processes that append an event and processes
\* that update one, all under flock
\* ------------------------------------------------------------------------

EvProcs == 1..3

\* What a process runs: logSurfacingEvent, or updateSurfacingEvent for the
\* latest event or for the event of a given id
EvRoles == {[fn |-> "log", target |-> -1],
            [fn |-> "update", target |-> -2],
            [fn |-> "update", target |-> 1]}

\* The eventID "latest"
Latest == -2

\* A line that json.Unmarshal rejects
BadLine == [id |-> -1, action |-> "garbage"]

\* The file before the processes start: missing or empty, one event, an
\* unreadable line and one event
EvFiles == {<<>>, <<[id |-> 0, action |-> ""]>>, <<BadLine, [id |-> 0, action |-> "accept"]>>}

EvInit ==
  /\ \E f \in EvFiles, roles \in [EvProcs -> EvRoles] :
       ev = [file |-> f, lock |-> 0,
             ps |-> [p \in EvProcs |->
                       [fn |-> roles[p].fn, target |-> roles[p].target, pc |-> "open",
                        events |-> <<>>, off |-> 0, err |-> ""]]]
  /\ root = VaultRoot /\ fs = BaseTree /\ touched = {}
  /\ scanPc = "start" /\ mdFiles = <<>> /\ existingFiles = {} /\ existingFolders = {}
  /\ fileChan = <<>> /\ chanCap = 0 /\ chanClosed = FALSE /\ unsent = <<>>
  /\ workers = [w \in WorkerIds |-> IdleWorker] /\ mu = 0 /\ result = EmptyResult
  /\ parsed = <<>> /\ faults = 0 /\ numCPU = 2
  /\ pool = IdlePool /\ cli = IdleCli
  /\ NormIdle /\ RenameIdle

EvFrame == UNCHANGED <<commonVars, normVars, renameVars, scanVars, cli>>

\* A plausible slip: a shared lock (LOCK_SH), which every process is granted
FlockGranted_shared(lock) == TRUE

\* syscall.Flock(fd, LOCK_EX) returns: no other process holds the lock
FlockGranted(lock) == lock = 0

\* os.OpenFile: the file is there from now on
EvOpen(p) ==
  /\ ev.ps[p].pc = "open"
  /\ ev' = [ev EXCEPT !.ps[p].pc = "flock"]
  /\ EvFrame

\* syscall.Flock(int(file.Fd()), syscall.LOCK_EX)
EvFlock(p) ==
  /\ ev.ps[p].pc = "flock"
  /\ FlockGranted(ev.lock)
  /\ ev' = [ev EXCEPT !.lock = p,
                      !.ps[p].pc = IF ev.ps[p].fn = "log" THEN "append" ELSE "read"]
  /\ EvFrame

\* logSurfacingEvent: file.WriteString(data + "\n") on the O_APPEND descriptor
EvAppend(p) ==
  /\ ev.ps[p].pc = "append"
  /\ ev' = [ev EXCEPT !.file = Append(@, [id |-> p, action |-> ""]),
                      !.ps[p].pc = "unlock"]
  /\ EvFrame

\* The lines of the file that parse as events
ParsedEvents(file) == SelectSeq(file, LAMBDA l : l # BadLine)

\* targetIdx: for "latest" the last event without the field, else the last
\* event; for an id the first event with it; 0 when there is none
TargetIdx(events, target) ==
  IF target = Latest
    THEN IF \E i \in 1..Len(events) : events[i].action = ""
           THEN CHOOSE i \in 1..Len(events) :
                  /\ events[i].action = ""
                  /\ \A j \in (i + 1)..Len(events) : events[j].action # ""
         ELSE Len(events)
  ELSE IF \E i \in 1..Len(events) : events[i].id = target
    THEN CHOOSE i \in 1..Len(events) :
           /\ events[i].id = target
           /\ \A j \in 1..(i - 1) : events[j].id # target
  ELSE 0

\* updateSurfacingEvent from the scan of the file to the updated event list,
\* or to its return with an error
EvRead(p) ==
  /\ ev.ps[p].pc = "read"
  /\ ev' = IF ParsedEvents(ev.file) = <<>>
             THEN [ev EXCEPT !.ps[p].err = "no surfacing events found", !.ps[p].pc = "unlock"]
           ELSE IF TargetIdx(ParsedEvents(ev.file), ev.ps[p].target) = 0
             THEN [ev EXCEPT !.ps[p].err = "event not found", !.ps[p].pc = "unlock"]
           ELSE [ev EXCEPT
                   !.ps[p].events =
                      [ParsedEvents(ev.file) EXCEPT
                         ![TargetIdx(ParsedEvents(ev.file), ev.ps[p].target)].action = "accept"],
                   !.ps[p].pc = "truncate"]
  /\ EvFrame

\* file.Seek(0, 0); file.Truncate(0)
EvTruncate(p) ==
  /\ ev.ps[p].pc = "truncate"
  /\ ev' = [ev EXCEPT !.file = <<>>, !.ps[p].off = 0, !.ps[p].pc = "rewrite"]
  /\ EvFrame

\* One file.WriteString of the rewrite loop, at the descriptor's offset
EvRewrite(p) ==
  /\ ev.ps[p].pc = "rewrite"
  /\ ev.ps[p].events # <<>>
  /\ ev' = [ev EXCEPT
              !.file = IF ev.ps[p].off < Len(@)
                         THEN [@ EXCEPT ![ev.ps[p].off + 1] = Head(ev.ps[p].events)]
                       ELSE Append(@, Head(ev.ps[p].events)),
              !.ps[p].off = @ + 1,
              !.ps[p].events = Tail(@)]
  /\ EvFrame

\* The rewrite loop has ended
EvRewritten(p) ==
  /\ ev.ps[p].pc = "rewrite"
  /\ ev.ps[p].events = <<>>
  /\ ev' = [ev EXCEPT !.ps[p].pc = "unlock"]
  /\ EvFrame

\* The deferred syscall.Flock(fd, LOCK_UN) and file.Close()
EvUnlock(p) ==
  /\ ev.ps[p].pc = "unlock"
  /\ ev' = [ev EXCEPT !.lock = IF @ = p THEN 0 ELSE @, !.ps[p].pc = "done"]
  /\ EvFrame

EvNext ==
  \/ \E p \in EvProcs : EvOpen(p)
  \/ \E p \in EvProcs : EvFlock(p)
  \/ \E p \in EvProcs : EvAppend(p)
  \/ \E p \in EvProcs : EvRead(p)
  \/ \E p \in EvProcs : EvTruncate(p)
  \/ \E p \in EvProcs : EvRewrite(p)
  \/ \E p \in EvProcs : EvRewritten(p)
  \/ \E p \in EvProcs : EvUnlock(p)

SpecEvents == EvInit /\ [][EvNext]_vars

\* The process has appended its event
HasAppended(p) == ev.ps[p].fn = "log" /\ ev.ps[p].pc \in {"unlock", "done"}

\* The file holds the event of process p
InFile(p) == \E i \in 1..Len(ev.file) : ev.file[i].id = p

AllFinished == \A p \in EvProcs : ev.ps[p].pc = "done"

====
